---- MODULE Spec2Model ----
(***************************************************************************)
(* A model of the prime sieves and decimal digit vectors of euler-rust.    *)
(*                                                                         *)
(*   utils/sieve.rs   prime_set, primes, IncrementalSieve                  *)
(*   utils/primes.rs  IncrementalPrimeSet (and its copy of the sieve)      *)
(*   utils/digits.rs  Digits, BigDigits                                    *)
(*                                                                         *)
(* In the sieve an Option<T> is a sequence of length at most one: <<>> is   *)
(* None and <<x>> is Some(x); an Option<u64> returned by checked_value is  *)
(* a record [some, val].  A FixedBitSet is a record [length, ones].        *)
(***************************************************************************)
EXTENDS Integers, Sequences, FiniteSets, TLC

VARIABLES
    \* ---- prime_set(limit) : one call of the bounded sieve
    ps_limit,       \* the argument of the call
    ps_pc,          \* "call" before the call, "returned" or "aborted" after it
    is_prime,       \* the bitset the call returned
    \* ---- IncrementalSieve : one sieve iterated by next_prime
    debug_assertions, \* the build: TRUE for a debug build (debug assertions and
                      \* arithmetic overflow checks compiled in), FALSE for release
    sieve,          \* the IncrementalSieve
    emitted,        \* the values next_prime has returned so far, in order
    \* ---- IncrementalPrimeSet
    set,            \* IncrementalPrimeSet.set
    set_sieve,      \* IncrementalPrimeSet.sieve
    call,           \* the last call made on the IncrementalPrimeSet and its result
    \* ---- Digits and BigDigits
    digits,         \* the Digits
    big,            \* the BigDigits
    last,           \* the last call made on digits or big, and its result
    ops,            \* the number of calls made
    \* ---- is_lycrell_number
    lychrel,        \* the call of is_lycrell_number: its arguments, locals and result
    \* ---- functions of their arguments alone
    fcall           \* the last call of such a function: its name, arguments and result

ps_vars == <<ps_limit, ps_pc, is_prime>>
inc_vars == <<sieve, emitted>>
ips_vars == <<set, set_sieve, call>>
dg_vars == <<digits, big, last, ops>>
more_vars == <<lychrel, fcall>>
vars == <<ps_limit, ps_pc, is_prime, debug_assertions, sieve, emitted, set, set_sieve, call,
          digits, big, last, ops, lychrel, fcall>>

----------------------------------------------------------------------------
(* Bounds of the model. *)

\* prime_set is called with every limit in 0..MaxPrimeLimit
MaxPrimeLimit == 70

\* the number of calls made on a Digits or BigDigits in a run
MaxOps == 2

\* the length of the BigDigits operands of Add and AddAssign
MaxBigLen == 3

\* pad is called with every amount in 0..MaxPad
MaxPad == 21

\* is_lycrell_number is called with every max_iterations in 1..MaxIterations
MaxIterations == 50

\* utils/sieve.rs:35 has BFSZ = 1 << 16 words of 32 bits in a page; the model
\* keeps the 32-bit words and scales the number of words in a page down.
BFSZ == 1

\* next_prime is no longer called once it has returned a value >= MaxEmit
MaxEmit == 4000

\* an IncrementalPrimeSet is not grown beyond MaxLimit bits
MaxLimit == 2100
\* the longest list of terms ContinuedFraction::new is called with
MaxTerms == 3
\* the greatest len that e and sqrt2 are called with
MaxLen == 20
\* the greatest index whose convergent is evaluated
MaxIndex == 8

----------------------------------------------------------------------------
(* Helpers. *)

Max(a, b) == IF a >= b THEN a ELSE b

Last(s) == s[Len(s)]

\* x is a prime number (the mathematical definition, used to state the claims)
IsPrimeNumber(x) == x >= 2 /\ \A d \in 2..(x - 1) : x % d # 0

\* the increasing sequence of the elements of a finite set of integers
RECURSIVE SetToSortedSeq(_)
SetToSortedSeq(S) ==
    IF S = {} THEN <<>>
    ELSE LET m == CHOOSE x \in S : \A y \in S : x <= y
         IN <<m>> \o SetToSortedSeq(S \ {m})

----------------------------------------------------------------------------
(* FixedBitSet, as used by the sieves. *)

\* FixedBitSet::with_capacity(bits): all bits clear
with_capacity(bits) == [length |-> bits, ones |-> {}]

\* The precondition of FixedBitSet::set_range(start.., _): the library asserts
\* start <= end && end <= length, where an open range ends at length.
set_range_ok(bs, start) == start <= bs.length

\* FixedBitSet::set_range(start.., true)
set_range_from(bs, start) == [bs EXCEPT !.ones = @ \cup (start..(bs.length - 1))]

\* FixedBitSet::grow(bits): never shrinks, new bits are clear
grow(bs, bits) == IF bits > bs.length THEN [bs EXCEPT !.length = bits] ELSE bs

\* FixedBitSet::insert(bit)
insert(bs, bit) == [bs EXCEPT !.ones = @ \cup {bit}]

\* FixedBitSet::contains(bit): false beyond the length
contains(bs, bit) == bit \in bs.ones

----------------------------------------------------------------------------
(* utils/sieve.rs: prime_set and primes. *)

\* a sieve loop that stops at the rounded-down square root
FloorSqrt(n) == CHOOSE k \in 0..n : k * k <= n /\ (k + 1) * (k + 1) > n

\* (limit as f64).sqrt().ceil() as usize: the least k with k * k >= n
CeilSqrt(n) == CHOOSE k \in 0..n : k * k >= n /\ (k = 0 \/ (k - 1) * (k - 1) < n)

\* while j < limit { is_prime.set(j, false); j += i; }
\* clears j, j + i, j + 2i, ... below the length
clear_multiples(bs, j, i) ==
    [bs EXCEPT !.ones = @ \ {m \in j..(bs.length - 1) : (m - j) % i = 0}]

\* for i in 2..ceil(sqrt(limit)) { if is_prime[i] { ... } }
RECURSIVE sieve_loop(_, _, _)
sieve_loop(bs, i, end) ==
    IF i < end
    THEN sieve_loop(IF contains(bs, i) THEN clear_multiples(bs, i * i, i) ELSE bs,
                    i + 1, end)
    ELSE bs

\* prime_set(limit): [aborted, set]; aborted when set_range(2.., true) panics
prime_set(lim) ==
    LET empty == with_capacity(lim)
    IN IF ~set_range_ok(empty, 2)
       THEN [aborted |-> TRUE, set |-> empty]
       ELSE [aborted |-> FALSE,
             set |-> sieve_loop(set_range_from(empty, 2), 2, CeilSqrt(lim))]

\* primes(limit): prime_set(limit).ones() in increasing order
primes(lim) == SetToSortedSeq(prime_set(lim).set.ones)

----------------------------------------------------------------------------
(* utils/sieve.rs: IncrementalSieve (utils/primes.rs holds the same code). *)

BFBTS == BFSZ * 32
BFRNG == BFBTS * 2

\* The page buffer [u32; BFSZ] is modelled as the set of the bit numbers j in
\* 0..BFBTS-1 whose bit is set: bit j is bit (j & 31) of word (j >> 5).

\* clear_slice(&mut *self.buf), and the buffer of a new sieve
clear_slice == {}

\* IncrementalSieve::new(); panicked records a failed debug assertion
new_sieve ==
    [bi |-> <<>>, lowi |-> 0, bpa |-> <<>>, bps |-> <<>>, buf |-> clear_slice,
     panicked |-> FALSE]

\* (buf[j >> 5] & (1 << (j & 31))) != 0
bit_set(buf, j) == j \in buf

\* while j < BFBTS { buf[j >> 5] |= 1 << (j & 31); j += p; }
\* sets the bits j, j + p, j + 2p, ... below BFBTS
mark_from(buf, j, p) == buf \cup {b \in j..(BFBTS - 1) : (b - j) % p = 0}

\* the culling of page zero: while sqr < nxt { if bit i clear { mark ... } ... }
RECURSIVE cull_first_page(_, _, _, _)
cull_first_page(buf, i, p, nxt) ==
    IF p * p < nxt
    THEN cull_first_page(IF ~bit_set(buf, i) THEN mark_from(buf, (p * p - 3) \div 2, p)
                                              ELSE buf,
                         i + 1, p + 2, nxt)
    ELSE buf

\* the start index with the remainder r itself in place of p - r
start_index_remainder(p, lowi) ==
    LET s == (p * p - 3) \div 2
    IN IF s >= lowi THEN s - lowi ELSE (lowi - s) % p

\* the start index of base prime p in the page that starts at lowi
start_index(p, lowi) ==
    LET s == (p * p - 3) \div 2
    IN IF s >= lowi THEN s - lowi
       ELSE LET r == (lowi - s) % p IN IF r # 0 THEN p - r ELSE 0

\* for &p in &bpa[..(bpa.len() - 1)] { mark the multiples of p in the page }
RECURSIVE cull_page(_, _, _, _)
cull_page(buf, bpa, k, lowi) ==
    IF k <= Len(bpa) - 1
    THEN cull_page(mark_from(buf, start_index(bpa[k], lowi), bpa[k]), bpa, k + 1, lowi)
    ELSE buf

\* while bi < BFBTS && bit bi is set { bi += 1 }
\* the first clear bit at or after bi, or BFBTS
scan(buf, bi) ==
    LET clear == {j \in bi..(BFBTS - 1) : ~bit_set(buf, j)}
    IN IF clear = {} THEN Max(bi, BFBTS) ELSE CHOOSE j \in clear : \A k \in clear : j <= k

RECURSIVE next_prime(_, _)
RECURSIVE fill_base_primes(_, _, _, _)

\* p = bps.next_prime(); bpa.push(p); and the loop goes on (r is what
\* bps.next_prime() returned)
push_base_prime(bpa, r, nxt, dbg) ==
    fill_base_primes(Append(bpa, r.prime), r.sieve, nxt, dbg)

\* while sqr < nxt { p = bps.next_prime(); bpa.push(p); sqr = p * p; }
\* returns the base primes and the advanced base prime source
fill_base_primes(bpa, bps, nxt, dbg) ==
    IF Last(bpa) * Last(bpa) < nxt
    THEN push_base_prime(bpa, next_prime(bps, dbg), nxt, dbg)
    ELSE [bpa |-> bpa, bps |-> bps]

\* self.bpa.push(bps.next_prime() as u32); debug_assert_eq!(self.bpa.last(), Some(&3));
\* skipped is the value the first debug assertion pulled and compared with 2
push_first(skipped, r, dbg) ==
    [bpa |-> <<r.prime>>, bps |-> r.sieve,
     panicked |-> dbg /\ (skipped # 2 \/ r.prime # 3)]

\* debug_assert_eq!(bps.next_prime(), 2) with debug assertions compiled in:
\* two is what bps.next_prime() returned
debug_assert_two(two, dbg) == push_first(two.prime, next_prime(two.sieve, dbg), dbg)

\* if self.bpa.is_empty() { debug_assert_eq!(bps.next_prime(), 2); self.bpa.push(...); ... }
\* The arguments of debug_assert_eq! are evaluated only when debug assertions
\* are compiled in.
first_base_prime(bpa, bps, dbg) ==
    IF bpa # <<>> THEN [bpa |-> bpa, bps |-> bps, panicked |-> FALSE]
    ELSE IF dbg THEN debug_assert_two(next_prime(bps, dbg), dbg)
    ELSE push_first(2, next_prime(bps, dbg), dbg)

\* the page buffer culled by all base primes but the last
culled(self, b1, b2) ==
    [self EXCEPT !.bpa = b2.bpa,
                 !.bps = <<b2.bps>>,
                 !.buf = cull_page(clear_slice, b2.bpa, 1, self.lowi),
                 !.panicked = @ \/ b1.panicked]

\* get enough base primes for the page range, then cull
fill_and_cull(self, b1, nxt, dbg) ==
    culled(self, b1, fill_base_primes(b1.bpa, b1.bps, nxt, dbg))

\* the Some(0) arm of next_prime for a page after the first;
\* bps = self.bps.get_or_insert_with(|| Box::new(Self::new()))
sieve_later_page(self, nxt, dbg) ==
    fill_and_cull(self,
                  first_base_prime(self.bpa,
                                   IF self.bps = <<>> THEN new_sieve ELSE self.bps[1],
                                   dbg),
                  nxt, dbg)

\* the Some(0) arm of next_prime: sieve the page that starts at lowi
sieve_page(self, dbg) ==
    IF self.lowi <= 0
    THEN [self EXCEPT !.buf = cull_first_page(self.buf, 0, 3, 3 + (self.lowi * 2) + BFRNG)]
    ELSE sieve_later_page(self, 3 + (self.lowi * 2) + BFRNG, dbg)

\* if bi < BFBTS { output the prime } else { advance the buffer and loop }
emit(self, bi, dbg) ==
    IF bi < BFBTS
    THEN [sieve |-> [self EXCEPT !.bi = <<bi + 1>>],
          prime |-> 3 + ((self.lowi + bi) * 2)]
    ELSE next_prime([self EXCEPT !.bi = <<0>>, !.lowi = @ + BFBTS], dbg)

\* find the next marker still with prime status
scan_page(self, dbg) == emit(self, scan(self.buf, self.bi[1]), dbg)

\* next_prime with a None arm that sieves page zero before it returns 2
next_prime_sieving(self, dbg) ==
    IF self.bi = <<>>
    THEN [sieve |-> [sieve_page(self, dbg) EXCEPT !.bi = <<0>>], prime |-> 2]
    ELSE scan_page(IF self.bi[1] = 0 THEN sieve_page(self, dbg) ELSE self, dbg)

\* IncrementalSieve::next_prime: [sieve, prime], the sieve after the call and
\* the value returned
next_prime(self, dbg) ==
    IF self.bi = <<>>
    THEN [sieve |-> [self EXCEPT !.bi = <<0>>], prime |-> 2]
    ELSE scan_page(IF self.bi[1] = 0 THEN sieve_page(self, dbg) ELSE self, dbg)

----------------------------------------------------------------------------
(* utils/primes.rs: IncrementalPrimeSet, a record [set, sieve]. *)

\* the margin check_prime adds to the queried value
MARGIN == 1000

\* IncrementalPrimeSet::new()
new_prime_set == [set |-> with_capacity(0), sieve |-> new_sieve]

\* IncrementalPrimeSet::limit
limit(self) == self.set.length

\* take_while(|&p| p < limit) on the value r pulled from the sieve, and
\* self.set.insert(prime) when it passes: the value that fails ends the loop
\* and is dropped
take_while(st, r, lim) ==
    IF r.prime < lim
    THEN [set |-> insert(st.set, r.prime), sieve |-> r.sieve, done |-> FALSE]
    ELSE [set |-> st.set, sieve |-> r.sieve, done |-> TRUE]

\* One turn of  for prime in self.sieve.by_ref().take_while(|&p| p < limit)
\* { set.insert(prime) }  on [set, sieve, done]: a value is pulled from the
\* sieve and only then tested.
take_while_step(st, lim, dbg) ==
    IF st.done THEN st ELSE take_while(st, next_prime(st.sieve, dbg), lim)

\* The loop itself, as nested runs of at most 16 turns each: 16 * 16 * 16 turns
\* end every loop whose limit is below 4096, as each turn that does not end
\* the loop inserts another value below the limit.
RECURSIVE turns_16(_, _, _, _)
turns_16(st, n, lim, dbg) ==
    IF n = 0 \/ st.done THEN st
    ELSE turns_16(take_while_step(st, lim, dbg), n - 1, lim, dbg)

RECURSIVE turns_256(_, _, _, _)
turns_256(st, n, lim, dbg) ==
    IF n = 0 \/ st.done THEN st
    ELSE turns_256(turns_16(st, 16, lim, dbg), n - 1, lim, dbg)

RECURSIVE take_while_loop(_, _, _, _)
take_while_loop(st, n, lim, dbg) ==
    IF n = 0 \/ st.done THEN st
    ELSE take_while_loop(turns_256(st, 16, lim, dbg), n - 1, lim, dbg)

\* the IncrementalPrimeSet the loop leaves behind
expanded(st) == [set |-> st.set, sieve |-> st.sieve]

\* IncrementalPrimeSet::expand
expand(self, lim, dbg) ==
    IF lim <= limit(self) THEN self
    ELSE expanded(take_while_loop([set |-> grow(self.set, lim), sieve |-> self.sieve,
                                   done |-> FALSE], 16, lim, dbg))

\* the limit with the margin alone
margin_limit(value, old_limit) == value + MARGIN

\* the limit check_prime expands to
grown_limit(value, old_limit) == Max(value + MARGIN, old_limit * 2)

\* IncrementalPrimeSet::contains on the set s1 that check_prime has expanded:
\* [self, result, aborted]; contains asserts prime <= set.len()
contains_prime(s1, prime) ==
    [self |-> s1,
     aborted |-> ~(prime <= s1.set.length),
     result |-> contains(s1.set, prime)]

\* check_prime with the test  value + 1 >= self.limit()
check_prime_early(self, value, dbg) ==
    contains_prime(IF value + 1 >= limit(self)
                   THEN expand(self, grown_limit(value, limit(self)), dbg)
                   ELSE self,
                   value)

\* IncrementalPrimeSet::check_prime
check_prime(self, value, dbg) ==
    contains_prime(IF value >= limit(self)
                   THEN expand(self, grown_limit(value, limit(self)), dbg)
                   ELSE self,
                   value)

----------------------------------------------------------------------------
(* u64 arithmetic. A u64 is four 16-bit limbs, least significant first, so
   that no intermediate result leaves the range of the model's integers. *)

\* the limb base, 2^16: four limbs make the 64 bits of  let mut result = 0u64
LIMB == 65536

u64_zero == <<0, 0, 0, 0>>

u64_max == <<LIMB - 1, LIMB - 1, LIMB - 1, LIMB - 1>>

\* a u8 digit as u64 (digit as u64)
as_u64(d) == <<d, 0, 0, 0>>

\* the carry out of a limb
carry_of(t) == t \div LIMB

\* x * m for a small m: [val, overflow], val the low 64 bits
u64_mul(x, m) ==
    LET t1 == x[1] * m
        t2 == x[2] * m + carry_of(t1)
        t3 == x[3] * m + carry_of(t2)
        t4 == x[4] * m + carry_of(t3)
    IN [val |-> <<t1 % LIMB, t2 % LIMB, t3 % LIMB, t4 % LIMB>>,
        overflow |-> carry_of(t4) # 0]

\* x + y: [val, overflow], val the low 64 bits
u64_add(x, y) ==
    LET t1 == x[1] + y[1]
        t2 == x[2] + y[2] + carry_of(t1)
        t3 == x[3] + y[3] + carry_of(t2)
        t4 == x[4] + y[4] + carry_of(t3)
    IN [val |-> <<t1 % LIMB, t2 % LIMB, t3 % LIMB, t4 % LIMB>>,
        overflow |-> carry_of(t4) # 0]

\* x / 10 and x % 10 by long division from the most significant limb
u64_divmod10(x) ==
    LET t4 == x[4]
        t3 == (t4 % 10) * LIMB + x[3]
        t2 == (t3 % 10) * LIMB + x[2]
        t1 == (t2 % 10) * LIMB + x[1]
    IN [quot |-> <<t1 \div 10, t2 \div 10, t3 \div 10, t4 \div 10>>,
        rem |-> t1 % 10]

\* Option<u64>
Some(x) == [some |-> TRUE, val |-> x]
None == [some |-> FALSE, val |-> u64_zero]

\* the Option a wrapped product would be: never None
unchecked(r) == Some(r.val)

\* the Option of an arithmetic result r = [val, overflow]
checked(r) == IF r.overflow THEN None ELSE Some(r.val)

\* u64::checked_mul
checked_mul(x, m) == checked(u64_mul(x, m))

\* u64::checked_add
checked_add(x, y) == checked(u64_add(x, y))

\* result *= 10  and  result += digit: [aborted, val]; the arithmetic
\* overflow check of a debug build aborts, a release build wraps
assign_op(r, dbg) == [aborted |-> dbg /\ r.overflow, val |-> r.val]

----------------------------------------------------------------------------
(* utils/digits.rs: Digits, a record [len, values] with values the 20 slots.
   The operations that can panic return [aborted, self]. *)

\* the number of slots of values: [u8; 20]
CAPACITY == 20

\* [0; 20]
zero_values == [i \in 1..CAPACITY |-> 0]

\* slot index (from 0) of an array or slice
at(values, index) == values[index + 1]

\* values[index] = v
store(values, index, v) == [values EXCEPT ![index + 1] = v]

\* Digits::new
new == [len |-> 0, values |-> zero_values]

\* Digits::as_slice
as_slice(self) == SubSeq(self.values, 1, self.len)

\* the zip loop of from_digits from position i on: [aborted, values]
RECURSIVE from_digits_loop(_, _, _)
from_digits_loop(ds, i, values) ==
    IF i >= Len(ds) THEN [aborted |-> FALSE, values |-> values]
    ELSE IF ~(at(ds, i) < 10) THEN [aborted |-> TRUE, values |-> values]
    ELSE from_digits_loop(ds, i + 1, store(values, i, at(ds, i)))

\* Digits { values, len: digits.len() as u8 } from what the loop left
from_digits_result(ds, r) ==
    [aborted |-> r.aborted, self |-> [len |-> Len(ds), values |-> r.values]]

\* Digits::from_digits
from_digits(ds) ==
    IF ~(Len(ds) <= CAPACITY) THEN [aborted |-> TRUE, self |-> new]
    ELSE from_digits_result(ds, from_digits_loop(ds, 0, zero_values))

\* push without the assertion  digit < 10
push_any(self, digit) ==
    IF ~(self.len < CAPACITY) THEN [aborted |-> TRUE, self |-> self]
    ELSE [aborted |-> FALSE,
          self |-> [len |-> self.len + 1, values |-> store(self.values, self.len, digit)]]

\* Digits::push
push(self, digit) ==
    IF ~(digit < 10) \/ ~(self.len < CAPACITY) THEN [aborted |-> TRUE, self |-> self]
    ELSE [aborted |-> FALSE,
          self |-> [len |-> self.len + 1, values |-> store(self.values, self.len, digit)]]

\* all the slots of the array reversed, those past the slice among them
reversed_array(values, len) == [i \in 1..CAPACITY |-> values[CAPACITY + 1 - i]]

\* the slice as_mut_slice() reversed in place
reversed_values(values, len) ==
    [i \in 1..CAPACITY |-> IF i <= len THEN values[len + 1 - i] ELSE values[i]]

\* the same digits left in push order, least significant first
unreversed(self) == self

\* Digits::reverse
reverse(self) == [self EXCEPT !.values = reversed_values(self.values, self.len)]

RECURSIVE from_value_loop(_, _)

\* digit = num % 10; num /= 10; result.push(digit as u8); with dm = [quot, rem]
push_digit(dm, result) == from_value_loop(dm.quot, push(result, dm.rem).self)

\* while num > 0 { ... }
from_value_loop(num, result) ==
    IF num = u64_zero THEN result ELSE push_digit(u64_divmod10(num), result)

\* Digits::from_value
from_value(num) ==
    IF num = u64_zero THEN [len |-> 1, values |-> zero_values]
    ELSE reverse(from_value_loop(num, new))

\* the first loop of pad, from index down to len: [aborted, values]; a store
\* past the last slot aborts
RECURSIVE pad_loop(_, _, _, _)
pad_loop(values, index, len, padding) ==
    IF index < len THEN [aborted |-> FALSE, values |-> values]
    ELSE IF ~(index + padding < CAPACITY) THEN [aborted |-> TRUE, values |-> values]
    ELSE pad_loop(store(values, index + padding, at(values, index)), index - 1, len, padding)

\* for i in &mut self.values[..padding] { *i = 0 }
zero_fill(values, padding) ==
    [i \in 1..CAPACITY |-> IF i <= padding THEN 0 ELSE values[i]]

\* the second loop of pad and self.len = amount, after the first loop left r
pad_result(self, amount, r) ==
    IF r.aborted THEN [aborted |-> TRUE, self |-> self]
    ELSE [aborted |-> FALSE,
          self |-> [len |-> amount, values |-> zero_fill(r.values, amount - self.len)]]

\* pad without the test  len < amount
pad_unguarded(self, amount) ==
    IF ~(amount <= CAPACITY) THEN [aborted |-> TRUE, self |-> self]
    ELSE pad_result(self, amount,
                    pad_loop(self.values, amount - 1, self.len, amount - self.len))

\* Digits::pad
pad(self, amount) ==
    IF ~(amount <= CAPACITY) THEN [aborted |-> TRUE, self |-> self]
    ELSE IF self.len < amount
    THEN pad_result(self, amount,
                    pad_loop(self.values, amount - 1, self.len, amount - self.len))
    ELSE [aborted |-> FALSE, self |-> self]

\* Digits::insert
insert_digit(self, index, digit) ==
    IF ~(digit < 10) \/ ~(index < self.len) THEN [aborted |-> TRUE, self |-> self]
    ELSE [aborted |-> FALSE, self |-> [self EXCEPT !.values = store(@, index, digit)]]

RECURSIVE value_loop(_, _, _, _)

\* result += digit as u64, after result *= 10 gave m = [aborted, val]
value_add(slice, i, m, dbg) ==
    IF m.aborted THEN m
    ELSE value_loop(slice, i + 1, assign_op(u64_add(m.val, as_u64(at(slice, i))), dbg), dbg)

\* for &digit in self.as_slice() { result *= 10; result += digit as u64 }
\* with acc = [aborted, val] the result so far
value_loop(slice, i, acc, dbg) ==
    IF acc.aborted \/ i >= Len(slice) THEN acc
    ELSE value_add(slice, i, assign_op(u64_mul(acc.val, 10), dbg), dbg)

\* Digits::value: [aborted, val]
value(self, dbg) == value_loop(as_slice(self), 0, [aborted |-> FALSE, val |-> u64_zero], dbg)

RECURSIVE checked_value_loop(_, _, _)

\* result = result.checked_add(digit as u64)?, after checked_mul gave m
checked_value_add(slice, i, m) ==
    IF ~m.some THEN None
    ELSE checked_value_loop(slice, i + 1, checked_add(m.val, as_u64(at(slice, i))))

\* for &digit in self.as_slice() { result = result.checked_mul(10)?; ... }
\* with acc the Option of the result so far
checked_value_loop(slice, i, acc) ==
    IF ~acc.some \/ i >= Len(slice) THEN acc
    ELSE checked_value_add(slice, i, checked_mul(acc.val, 10))

\* Digits::checked_value
checked_value(self) == checked_value_loop(as_slice(self), 0, Some(u64_zero))

----------------------------------------------------------------------------
(* utils/digits.rs: BigDigits, the sequence of digits of its Vec<u8>. *)

\* the map loop of BigDigits::from_digits: some digit fails the assertion
invalid_digit(ds) == \E i \in 1..Len(ds) : ~(ds[i] < 10)

\* BigDigits::from_digits: [aborted, self]
big_from_digits(ds) ==
    IF invalid_digit(ds) THEN [aborted |-> TRUE, self |-> <<>>]
    ELSE [aborted |-> FALSE, self |-> ds]

\* impl From<Digits> for BigDigits
big_from(d) == as_slice(d)

\* BigDigits::from_value
big_from_value(num) == big_from(from_value(num))

RECURSIVE big_checked_value_loop(_, _, _)

\* result = result.checked_add(digit as u64)?, after checked_mul gave m
big_checked_value_add(self, i, m) ==
    IF ~m.some THEN None
    ELSE big_checked_value_loop(self, i + 1, checked_add(m.val, as_u64(at(self, i))))

\* for &digit in &self.0 { result = result.checked_mul(10)?; ... }
big_checked_value_loop(self, i, acc) ==
    IF ~acc.some \/ i >= Len(self) THEN acc
    ELSE big_checked_value_add(self, i, checked_mul(acc.val, 10))

\* BigDigits::checked_value
big_checked_value(self) == big_checked_value_loop(self, 0, Some(u64_zero))

\* Vec::reverse
RECURSIVE vec_reverse(_)
vec_reverse(s) == IF s = <<>> THEN <<>> ELSE Append(vec_reverse(Tail(s)), Head(s))

\* is_palindrome comparing with digits[half..] reversed
is_palindrome_from_half(ds) ==
    SubSeq(ds, 1, Len(ds) \div 2) = vec_reverse(SubSeq(ds, (Len(ds) \div 2) + 1, Len(ds)))

\* is_palindrome: with half = digits.len() / 2,
\* digits[..half].iter().eq(digits[(digits.len() - half)..].iter().rev())
is_palindrome(ds) ==
    SubSeq(ds, 1, Len(ds) \div 2)
        = vec_reverse(SubSeq(ds, Len(ds) - (Len(ds) \div 2) + 1, Len(ds)))

\* Digits::is_palindrome
digits_is_palindrome(self) == is_palindrome(as_slice(self))

\* BigDigits::is_palindrome
big_is_palindrome(self) == is_palindrome(self)

\* BigDigits::reversed
big_reversed(self) == vec_reverse(self)

\* add_digit with the comparison  result > 10
add_digit_above(left, right, carry) ==
    [digit |-> IF left + right + carry > 10 THEN left + right + carry - 10
               ELSE left + right + carry,
     carry |-> IF left + right + carry > 10 THEN 1 ELSE 0,
     aborted |-> left + right + carry > 10 /\ ~(left + right + carry < 20)]

\* add_digit: [digit, carry, aborted], the carry as 0 or 1 (carry as u8);
\* aborted is the debug assertion result < 20 failing
add_digit(left, right, carry) ==
    [digit |-> IF left + right + carry >= 10 THEN left + right + carry - 10
               ELSE left + right + carry,
     carry |-> IF left + right + carry >= 10 THEN 1 ELSE 0,
     aborted |-> left + right + carry >= 10 /\ ~(left + right + carry < 20)]

\* the k-th item from the start of s, or 0 past its end
from_start(s, k) == IF k < Len(s) THEN s[k + 1] ELSE 0

\* the k-th item from the end of s, or 0 where zip_longest has run out of s
from_end(s, k) == IF k < Len(s) THEN s[Len(s) - k] ELSE 0

RECURSIVE add_loop(_, _, _, _, _)

\* carry = overflow; result.push(digit); with d what add_digit returned
add_push(a, b, k, d, acc) ==
    add_loop(a, b, k + 1, d.carry,
             [aborted |-> acc.aborted \/ d.aborted, result |-> Append(acc.result, d.digit)])

\* for either in self.0.iter().rev().zip_longest(rhs.0.iter().rev()) { ... }
\* if carry { result.push(1) }:  [aborted, result], result least significant first
add_loop(a, b, k, carry, acc) ==
    IF k >= Max(Len(a), Len(b))
    THEN [aborted |-> acc.aborted,
          result |-> IF carry = 1 THEN Append(acc.result, 1) ELSE acc.result]
    ELSE add_push(a, b, k, add_digit(from_end(a, k), from_end(b, k), carry), acc)

\* self.checked_value().and_then(|left| rhs.checked_value().and_then(|right|
\*     left.checked_add(right)))
and_then_add(left, right) ==
    IF ~left.some THEN None
    ELSE IF ~right.some THEN None
    ELSE checked_add(left.val, right.val)

\* result.reverse(); debug_assert_eq!(result.checked_value(), ...); result
\* with sum the reversed result and aborted the debug assertion of add_digit
\* having failed; the assertions count in a debug build only
add_result(a, b, sum, aborted, dbg) ==
    [aborted |-> dbg /\ (aborted \/ big_checked_value(sum) #
                                    and_then_add(big_checked_value(a), big_checked_value(b))),
     self |-> sum]

\* reverse the digits the loop pushed
add_reversed(a, b, r, dbg) == add_result(a, b, vec_reverse(r.result), r.aborted, dbg)

\* impl Add for BigDigits: [aborted, self]
add(a, b, dbg) ==
    add_reversed(a, b, add_loop(a, b, 0, 0, [aborted |-> FALSE, result |-> <<>>]), dbg)

\* impl AddAssign for BigDigits: let result = self.clone() + rhs; *self = result
add_assign(a, b, dbg) == add(a, b, dbg)

----------------------------------------------------------------------------
(* solutions/lychrel_numbers.rs: is_lycrell_number, one turn of its loop at a
   time. The state of a call is a record [value, max_iterations, digits,
   iterations, pc, result] whose pc is "start" before
   BigDigits::from_value(value), "loop" at the head of the loop, and
   "returned" or "aborted" at the end. *)

\* let mut iterations = 0; let mut digits = BigDigits::from_value(value);
lychrel_start(c) ==
    [c EXCEPT !.digits = big_from_value(c.value), !.iterations = 0, !.pc = "loop"]

\* iterations += 1; if iterations > max_iterations { return true }
lychrel_count_above(c) ==
    IF c.iterations + 1 > c.max_iterations
    THEN [c EXCEPT !.iterations = @ + 1, !.pc = "returned", !.result = TRUE]
    ELSE [c EXCEPT !.iterations = @ + 1]

\* iterations += 1; if iterations >= max_iterations { return true }
lychrel_count(c) ==
    IF c.iterations + 1 >= c.max_iterations
    THEN [c EXCEPT !.iterations = @ + 1, !.pc = "returned", !.result = TRUE]
    ELSE [c EXCEPT !.iterations = @ + 1]

\* if digits.is_palindrome() { return false } and the rest of the turn
lychrel_test(c) ==
    IF big_is_palindrome(c.digits)
    THEN [c EXCEPT !.pc = "returned", !.result = FALSE]
    ELSE lychrel_count(c)

\* the turn after  digits += digits.reversed()  gave r = [aborted, self]
lychrel_added(c, r) ==
    IF r.aborted THEN [c EXCEPT !.pc = "aborted"]
    ELSE lychrel_test([c EXCEPT !.digits = r.self])

\* one turn of the loop of is_lycrell_number
lychrel_turn(c, dbg) ==
    lychrel_added(c, add_assign(c.digits, big_reversed(c.digits), dbg))

----------------------------------------------------------------------------
(* utils/integer_logarithm.rs: IntegerLogarithm for Self = i32. The functions
   that can panic return [aborted, val]. *)

\* i32::max_value() and i32::min_value()
I32_MAX == 2147483647
I32_MIN == -I32_MAX - 1

\* the number of bits of x >= 0 without its leading zeros
RECURSIVE bit_length(_)
bit_length(x) == IF x = 0 THEN 0 ELSE 1 + bit_length(x \div 2)

\* size: size_of::<i32>() * 8
size == 32

\* nlz: self.leading_zeros(), of the two's complement bits of an i32
nlz(x) == IF x < 0 THEN 0 ELSE size - bit_length(x)

\* floor_log2: [aborted, val]
floor_log2(x) == [aborted |-> x = 0, val |-> (size - 1) - nlz(x)]

\* exp10: pow(10, amount)
RECURSIVE exp10(_)
exp10(amount) == IF amount = 0 THEN 1 ELSE 10 * exp10(amount - 1)

\* a / b of i32, which rounds towards zero, for b > 0
div(a, b) == IF a >= 0 \/ a % b = 0 THEN a \div b ELSE (a \div b) + 1

\* ((k as f64) / LOG2_10).floor() for k in 0..63, LOG2_10 = 3.32192809...
log2_to_log10(k) == (k * 1000000) \div 3321928

\* while factor >= ten { factor = factor / 10; real_log += 1 }
RECURSIVE floor_log10_loop(_, _)
floor_log10_loop(factor, real_log) ==
    IF factor >= 10 THEN floor_log10_loop(div(factor, 10), real_log + 1) ELSE real_log

\* floor_log10 from the guess on: [aborted, val]
floor_log10_from(x, guess) ==
    IF div(x, exp10(guess)) = 0 THEN [aborted |-> TRUE, val |-> guess]
    ELSE [aborted |-> FALSE, val |-> floor_log10_loop(div(x, exp10(guess)), guess)]

\* floor_log10 after floor_log2 returned l
floor_log10_of(x, l) ==
    IF l.aborted THEN l ELSE floor_log10_from(x, log2_to_log10(l.val))

\* floor_log10: [aborted, val]
floor_log10(x) == floor_log10_of(x, floor_log2(x))

\* i32::checked_mul(power, 10) of power >= 0: <<>> is None
checked_mul_ten(power) == IF power > I32_MAX \div 10 THEN <<>> ELSE <<power * 10>>

RECURSIVE ceil_log10_loop(_, _, _)

\* power = match power.checked_mul(&ten) { Some(increased) => increased, None => break }
ceil_log10_next(x, log, increased) ==
    IF increased = <<>> THEN log ELSE ceil_log10_loop(x, log, increased[1])

\* while power < *self { log += 1; ... }
ceil_log10_loop(x, log, power) ==
    IF power < x THEN ceil_log10_next(x, log + 1, checked_mul_ten(power)) ELSE log

\* ceil_log10 after floor_log10 returned f: [aborted, val]
ceil_log10_of(x, f, dbg) ==
    IF f.aborted THEN f
    ELSE IF dbg /\ ~(exp10(f.val) <= x) THEN [aborted |-> TRUE, val |-> f.val]
    ELSE [aborted |-> FALSE, val |-> ceil_log10_loop(x, f.val, exp10(f.val))]

\* ceil_log10: [aborted, val]
ceil_log10(x, dbg) == ceil_log10_of(x, floor_log10(x), dbg)

\* abs: neg_1 * self for self < 0, where -i32::min_value() overflows: a debug
\* build aborts, a release build wraps to i32::min_value()
abs(x, dbg) ==
    IF x = I32_MIN THEN [aborted |-> dbg, val |-> I32_MIN]
    ELSE [aborted |-> FALSE, val |-> IF x < 0 THEN -x ELSE x]

\* count_decimal_digits of a value that is not zero, after abs returned a
count_of_abs(a, dbg) == IF a.aborted THEN a ELSE ceil_log10(a.val, dbg)

\* count_decimal_digits: [aborted, val]
count_decimal_digits(x, dbg) ==
    IF x = 0 THEN [aborted |-> FALSE, val |-> 1] ELSE count_of_abs(abs(x, dbg), dbg)

----------------------------------------------------------------------------
(* solutions/poker.rs: the ids of PokerSuit, PokerValue and PokerCard. An
   Option is <<>> for None and <<x>> for Some(x). *)

\* enum PokerSuit, in the order of its declaration
PokerSuit == <<"Diamonds", "Hearts", "Clubs", "Spades">>

\* enum PokerValue, in the order of its declaration
PokerValue ==
    <<"One", "Two", "Three", "Four", "Five", "Six", "Seven", "Eight", "Nine",
      "Ten", "Jack", "King", "Queen", "Ace">>

\* `self as u8` of a variant of an enum: its place in the declaration
discriminant(variants, variant) ==
    (CHOOSE i \in 1..Len(variants) : variants[i] = variant) - 1

\* PokerSuit::id
suit_id(suit) == discriminant(PokerSuit, suit)

\* PokerSuit::from_id
suit_from_id(id) ==
    CASE id = 0 -> <<"Diamonds">>
      [] id = 1 -> <<"Hearts">>
      [] id = 2 -> <<"Clubs">>
      [] id = 3 -> <<"Hearts">>
      [] OTHER -> <<>>

\* PokerValue::id
value_id(v) == discriminant(PokerValue, v)

\* PokerValue::from_id
value_from_id(id) ==
    CASE id = 0 -> <<"One">>
      [] id = 1 -> <<"Two">>
      [] id = 2 -> <<"Three">>
      [] id = 3 -> <<"Four">>
      [] id = 4 -> <<"Five">>
      [] id = 5 -> <<"Six">>
      [] id = 6 -> <<"Seven">>
      [] id = 7 -> <<"Eight">>
      [] id = 8 -> <<"Nine">>
      [] id = 9 -> <<"Ten">>
      [] id = 10 -> <<"Jack">>
      [] id = 11 -> <<"Queen">>
      [] id = 12 -> <<"King">>
      [] id = 13 -> <<"Ace">>
      [] OTHER -> <<>>

\* PokerCard::id, of a u8
card_id(card) == (suit_id(card.suit) * 16 + value_id(card.value)) % 256

\* PokerCard::from_id after the two from_id calls returned
card_of(suit, v) ==
    IF suit = <<>> \/ v = <<>> THEN <<>> ELSE <<[suit |-> suit[1], value |-> v[1]]>>

\* PokerCard::from_id
card_from_id(id) == card_of(suit_from_id(id \div 16), value_from_id(id % 16))

(* solutions/poker.rs: PokerSet, PokerHand and PokerRank. A PokerSet(u64) is
   the set of the numbers of its one bits, a hand is the sequence of its five
   cards, a PokerRank is [kind, fields] with the variant's fields in the order
   of their declaration, and a result that can panic is [aborted, ...]. *)

\* PokerSet::contains_all
contains_all(self, other) == (self \cap other) = other

\* PokerSet::insert: self.0 |= 1 << card.id()
poker_insert(self, card) == self \cup {card_id(card)}

\* the derived PartialOrd of PokerValue: by discriminant
value_le(a, b) == value_id(a) <= value_id(b)

\* Ord::max and Ord::min of two PokerValues
value_max(a, b) == IF value_le(a, b) THEN b ELSE a
value_min(a, b) == IF value_le(a, b) THEN a ELSE b

\* impl PartialEq<u8> for PokerValue
value_eq_u8(v, n) == value_id(v) + 1 = n

\* PokerValue::checked_add, of u8s
value_checked_add(v, rhs) ==
    IF (value_id(v) + rhs) % 256 < 14 /\ (value_id(v) + rhs) % 256 >= value_id(v)
    THEN value_from_id((value_id(v) + rhs) % 256)
    ELSE <<>>

\* PokerValue::kinds, over PokerSuit::ALL
kinds(v) == {card_id([suit |-> PokerSuit[i], value |-> v]) : i \in 1..Len(PokerSuit)}

\* PokerValue::flush
flush(v) ==
    IF value_checked_add(v, 4) = <<>> THEN <<>>
    ELSE <<UNION {kinds(value_from_id(id)[1]) :
                    id \in value_id(v)..value_id(value_checked_add(v, 4)[1])}>>

\* PokerSuit::cards: ((1u64 << 13) - 1) << (16 * self.id())
suit_cards(suit) == {16 * suit_id(suit) + bit : bit \in 0..12}

\* PokerCard::until: [aborted, cards]
until(self, end) ==
    IF ~value_le(self.value, end) THEN [aborted |-> TRUE, cards |-> {}]
    ELSE [aborted |-> FALSE,
          cards |-> {card_id([suit |-> self.suit, value |-> value_from_id(id)[1]]) :
                        id \in value_id(self.value)..value_id(end)}]

\* PokerCard::straight_flush: [aborted, cards], cards an Option
straight_flush(self) ==
    IF value_checked_add(self.value, 4) = <<>> THEN [aborted |-> FALSE, cards |-> <<>>]
    ELSE [aborted |-> until(self, value_checked_add(self.value, 4)[1]).aborted,
          cards |-> <<until(self, value_checked_add(self.value, 4)[1]).cards>>]

\* sort_by_key(|card| card.value), a stable sort: card into the sorted cards
RECURSIVE sort_insert(_, _)
sort_insert(sorted, card) ==
    IF sorted = <<>> \/ value_le(sorted[Len(sorted)].value, card.value)
    THEN Append(sorted, card)
    ELSE Append(sort_insert(SubSeq(sorted, 1, Len(sorted) - 1), card), sorted[Len(sorted)])

RECURSIVE sort_by_key(_)
sort_by_key(cards) ==
    IF cards = <<>> THEN <<>>
    ELSE sort_insert(sort_by_key(SubSeq(cards, 1, Len(cards) - 1)), cards[Len(cards)])

\* PokerHand::new: [aborted, cards]
hand_new(cards) ==
    IF Len(cards) # 5 THEN [aborted |-> TRUE, cards |-> <<>>]
    ELSE [aborted |-> FALSE, cards |-> sort_by_key(cards)]

\* PokerHand::set
hand_set(self) ==
    poker_insert(poker_insert(poker_insert(poker_insert(poker_insert({},
        self.cards[1]), self.cards[2]), self.cards[3]), self.cards[4]), self.cards[5])

\* PokerHand::high_card
high_card(self) == self.cards[5].value

\* a PokerRank
PokerRankOf(kind, fields) == [kind |-> kind, fields |-> fields]

\* one turn of the loop of rank over the first four cards, on
\* [aborted, returned, three_of_a_kind, pairs]
rank_turn(st, card, cards, dbg) ==
    IF st.aborted \/ st.returned # <<>> THEN st
    ELSE CASE Cardinality(kinds(card.value) \cap cards) = 1 -> st
           [] Cardinality(kinds(card.value) \cap cards) = 2 ->
                IF \E i \in 1..Len(st.pairs) : st.pairs[i] = card.value THEN st
                ELSE [st EXCEPT !.pairs = Append(@, card.value)]
           [] Cardinality(kinds(card.value) \cap cards) = 3 ->
                IF dbg /\ st.three_of_a_kind # <<>> /\ st.three_of_a_kind # <<card.value>>
                THEN [st EXCEPT !.aborted = TRUE]
                ELSE [st EXCEPT !.three_of_a_kind = <<card.value>>]
           [] Cardinality(kinds(card.value) \cap cards) = 4 ->
                [st EXCEPT !.returned = <<PokerRankOf("FourOfAKind", <<card.value>>)>>]
           [] OTHER -> [st EXCEPT !.aborted = TRUE]

\* the loop of rank
rank_loop(self, cards, dbg) ==
    rank_turn(rank_turn(rank_turn(rank_turn(
        [aborted |-> FALSE, returned |-> <<>>, three_of_a_kind |-> <<>>, pairs |-> <<>>],
        self.cards[1], cards, dbg), self.cards[2], cards, dbg), self.cards[3], cards, dbg),
        self.cards[4], cards, dbg)

\* rank reaches the unreachable!() of its last match
rank_unreachable(self, cards, st) ==
    /\ st.returned = <<>>
    /\ st.three_of_a_kind = <<>>
    /\ ~contains_all(suit_cards(self.cards[1].suit), cards)
    /\ ~(flush(self.cards[1].value) # <<>>
          /\ contains_all(flush(self.cards[1].value)[1], cards))
    /\ Len(st.pairs) > 2

\* rank after its loop
rank_after(self, cards, st) ==
    IF st.aborted THEN [aborted |-> TRUE, rank |-> PokerRankOf("HighCard", <<>>)]
    ELSE [aborted |-> rank_unreachable(self, cards, st),
          rank |->
            IF st.returned # <<>> THEN st.returned[1]
            ELSE IF st.three_of_a_kind # <<>> /\ st.pairs # <<>>
            THEN PokerRankOf("FullHouse", <<st.three_of_a_kind[1], st.pairs[1]>>)
            ELSE IF contains_all(suit_cards(self.cards[1].suit), cards)
            THEN PokerRankOf("Flush", <<>>)
            ELSE IF flush(self.cards[1].value) # <<>>
                    /\ contains_all(flush(self.cards[1].value)[1], cards)
            THEN PokerRankOf("Straight", <<self.cards[1].value>>)
            ELSE IF st.three_of_a_kind # <<>>
            THEN PokerRankOf("ThreeOfAKind", <<st.three_of_a_kind[1]>>)
            ELSE IF Len(st.pairs) = 0 THEN PokerRankOf("HighCard", <<high_card(self)>>)
            ELSE IF Len(st.pairs) = 1 THEN PokerRankOf("OnePair", <<st.pairs[1]>>)
            ELSE PokerRankOf("TwoPairs", <<value_max(st.pairs[1], st.pairs[2]),
                                    value_min(st.pairs[1], st.pairs[2])>>)]

\* PokerHand::rank: [aborted, rank]
rank(self, dbg) ==
    IF straight_flush(self.cards[1]).aborted
    THEN [aborted |-> TRUE, rank |-> PokerRankOf("HighCard", <<>>)]
    ELSE IF straight_flush(self.cards[1]).cards = <<hand_set(self)>>
    THEN [aborted |-> FALSE,
          rank |-> IF value_eq_u8(self.cards[1].value, 10) THEN PokerRankOf("RoyalFlush", <<>>)
                   ELSE PokerRankOf("StraightFlush", <<self.cards[1].value>>)]
    ELSE rank_after(self, hand_set(self), rank_loop(self, hand_set(self), dbg))

\* enum PokerRank, in the order of its declaration
PokerRank ==
    <<"HighCard", "OnePair", "TwoPairs", "ThreeOfAKind", "Straight", "Flush",
      "FullHouse", "FourOfAKind", "StraightFlush", "RoyalFlush">>

\* Ordering::then_with
then_with(ordering, next) == IF ordering = "Equal" THEN next ELSE ordering

\* the cmp of two u8 discriminants
cmp(a, b) == IF a < b THEN "Less" ELSE IF a > b THEN "Greater" ELSE "Equal"

\* the lexicographic cmp of two sequences of discriminants
RECURSIVE cmp_seq(_, _)
cmp_seq(a, b) ==
    IF a = <<>> \/ b = <<>> THEN cmp(Len(a), Len(b))
    ELSE then_with(cmp(Head(a), Head(b)), cmp_seq(Tail(a), Tail(b)))

\* the discriminants of a variant's fields, all PokerValues
field_ids(fields) == [i \in 1..Len(fields) |-> value_id(fields[i])]

\* the derived Ord of PokerRank: the variant, then its fields in order
rank_cmp(a, b) ==
    then_with(cmp(discriminant(PokerRank, a.kind), discriminant(PokerRank, b.kind)),
              cmp_seq(field_ids(a.fields), field_ids(b.fields)))

\* the derived Ord of PokerCard: its suit, then its value
card_key(card) == suit_id(card.suit) * 16 + value_id(card.value)

\* self.cards.iter().rev(), each card as its place in the order of PokerCards
rev_keys(self) == [i \in 1..Len(self.cards) |-> card_key(self.cards[Len(self.cards) + 1 - i])]

\* PokerHand::determine_winner: [aborted, ordering]
determine_winner(self, other, dbg) ==
    IF rank(self, dbg).aborted \/ rank(other, dbg).aborted
    THEN [aborted |-> TRUE, ordering |-> "Equal"]
    ELSE [aborted |-> FALSE,
          ordering |-> then_with(rank_cmp(rank(self, dbg).rank, rank(other, dbg).rank),
                                 cmp_seq(rev_keys(self), rev_keys(other)))]

----------------------------------------------------------------------------
(* utils/continued_fraction.rs over num::BigRational: a ratio is
   [numer, denom] in lowest terms with denom > 0, and the results that can
   panic are [aborted, ratio]. *)

RECURSIVE gcd(_, _)
gcd(a, b) == IF b = 0 THEN a ELSE gcd(b, a % b)

\* Ratio::new of numer >= 0 and denom > 0: reduced to lowest terms
ratio_new(numer, denom) ==
    [numer |-> numer \div gcd(numer, denom), denom |-> denom \div gcd(numer, denom)]

\* BigRational::from(BigInt::from(value)), BigRational::from_integer
from_integer(t) == [numer |-> t, denom |-> 1]

\* Ratio::recip of a ratio > 0
recip(r) == [numer |-> r.denom, denom |-> r.numer]

\* Ratio + Ratio
ratio_add(a, b) == ratio_new(a.numer * b.denom + a.denom * b.numer, a.denom * b.denom)

\* the state of the loop before its first turn: val = None
none_val == [some |-> FALSE, aborted |-> FALSE, ratio |-> from_integer(0)]

\* existing.recip() + value, which panics for the reciprocal of zero
recip_plus(existing, r) ==
    IF existing.numer = 0 THEN [some |-> TRUE, aborted |-> TRUE, ratio |-> existing]
    ELSE [some |-> TRUE, aborted |-> FALSE, ratio |-> ratio_add(recip(existing), r)]

\* one turn of the loop: val = Some(match val { ... })
convergent_turn(val, t) ==
    IF val.aborted THEN val
    ELSE IF val.some THEN recip_plus(val.ratio, from_integer(t))
    ELSE [some |-> TRUE, aborted |-> FALSE, ratio |-> from_integer(t)]

\* the terms the loop visits, forwards
terms_forward(remaining, index) == SubSeq(remaining, 1, index)

\* self.remaining[..index].iter().rev()
terms_rev(remaining, index) == vec_reverse(SubSeq(remaining, 1, index))

\* the loop over terms from turn i on
RECURSIVE convergent_loop(_, _, _)
convergent_loop(terms, i, val) ==
    IF i > Len(terms) THEN val
    ELSE convergent_loop(terms, i + 1, convergent_turn(val, terms[i]))

\* from_integer(first_digit) + val.map_or(zero, |v| v.recip())
convergent_result(first_digit, val) ==
    IF val.aborted THEN [aborted |-> TRUE, ratio |-> val.ratio]
    ELSE IF ~val.some THEN [aborted |-> FALSE, ratio |-> from_integer(first_digit)]
    ELSE IF val.ratio.numer = 0 THEN [aborted |-> TRUE, ratio |-> val.ratio]
    ELSE [aborted |-> FALSE,
          ratio |-> ratio_add(from_integer(first_digit), recip(val.ratio))]

\* ContinuedFraction::eval_big_convergent: [aborted, ratio]
eval_big_convergent(self, index) ==
    IF ~(index <= Len(self.remaining)) THEN [aborted |-> TRUE, ratio |-> from_integer(0)]
    ELSE convergent_result(self.first_digit,
             convergent_loop(terms_rev(self.remaining, index), 1, none_val))

\* ContinuedFraction::new
cf_new(first, remaining) == [first_digit |-> first, remaining |-> remaining]

\* while remaining.len() < len { push(k * 2); push(1); push(1); k += 1 }
RECURSIVE e_loop(_, _, _)
e_loop(remaining, k, len) ==
    IF Len(remaining) < len THEN e_loop(remaining \o <<k * 2, 1, 1>>, k + 1, len)
    ELSE remaining

\* ContinuedFraction::e
e(len) == [first_digit |-> 2, remaining |-> e_loop(<<1>>, 1, len)]

\* ContinuedFraction::sqrt2
sqrt2(len) == [first_digit |-> 1, remaining |-> [i \in 1..len |-> 2]]

----------------------------------------------------------------------------
(* utils/primes.rs: is_prime, on u64 values of four 16-bit limbs. A product
   of two u64 is formed byte by byte, as sixteen bytes least significant
   first, so that no intermediate result leaves the range of the model's
   integers. *)

u64_one == <<1, 0, 0, 0>>

\* x < y
u64_lt(x, y) ==
    IF x[4] # y[4] THEN x[4] < y[4]
    ELSE IF x[3] # y[3] THEN x[3] < y[3]
    ELSE IF x[2] # y[2] THEN x[2] < y[2]
    ELSE x[1] < y[1]

\* x / 2
u64_half(x) ==
    <<(x[1] \div 2) + (x[2] % 2) * (LIMB \div 2), (x[2] \div 2) + (x[3] % 2) * (LIMB \div 2),
      (x[3] \div 2) + (x[4] % 2) * (LIMB \div 2), x[4] \div 2>>

\* x & 1 == 0
u64_even(x) == x[1] % 2 = 0

\* the borrow out of a limb
borrow_of(t) == IF t < 0 THEN 1 ELSE 0

\* x - y for x >= y
u64_sub(x, y) ==
    LET t1 == x[1] - y[1]
        t2 == x[2] - y[2] - borrow_of(t1)
        t3 == x[3] - y[3] - borrow_of(t2)
        t4 == x[4] - y[4] - borrow_of(t3)
    IN <<t1 % LIMB, t2 % LIMB, t3 % LIMB, t4 % LIMB>>

\* the eight bytes of x, least significant first
to_bytes(x) ==
    <<x[1] % 256, x[1] \div 256, x[2] % 256, x[2] \div 256,
      x[3] % 256, x[3] \div 256, x[4] % 256, x[4] \div 256>>

\* the low 64 bits of sixteen bytes
low_u64(bs) ==
    <<bs[1] + 256 * bs[2], bs[3] + 256 * bs[4], bs[5] + 256 * bs[6], bs[7] + 256 * bs[8]>>

\* the bytes from the ninth on are not all 0: the product does not fit a u64
high_bytes(bs) == \E k \in 9..16 : bs[k] # 0

\* the sum of xb[i] * yb[k - i] over the byte pairs of column k, from i on
RECURSIVE column(_, _, _, _)
column(xb, yb, k, i) ==
    IF i > 7 \/ i > k THEN 0
    ELSE (IF k - i <= 7 THEN xb[i + 1] * yb[k - i + 1] ELSE 0) + column(xb, yb, k, i + 1)

\* the bytes of the product from column k on, with the carry into column k
RECURSIVE product_from(_, _, _, _)
product_from(xb, yb, k, carry) ==
    IF k > 15 THEN <<>>
    ELSE <<(column(xb, yb, k, 0) + carry) % 256>>
         \o product_from(xb, yb, k + 1, (column(xb, yb, k, 0) + carry) \div 256)

\* the 128 bits of x * y, as sixteen bytes
product(x, y) == product_from(to_bytes(x), to_bytes(y), 0, 0)

\* bit b of the bytes bs
bit_of(bs, b) == (bs[(b \div 8) + 1] \div (2 ^ (b % 8))) % 2

\* 2 * r + bit for r < 2^64, as five limbs
shift_in(r, b) ==
    LET t1 == 2 * r[1] + b
        t2 == 2 * r[2] + carry_of(t1)
        t3 == 2 * r[3] + carry_of(t2)
        t4 == 2 * r[4] + carry_of(t3)
    IN <<t1 % LIMB, t2 % LIMB, t3 % LIMB, t4 % LIMB, carry_of(t4)>>

\* r5 - n if r5 >= n, else r5, for r5 < 2 * n of five limbs: four limbs
reduce(r5, n) ==
    IF r5[5] = 0 /\ u64_lt(r5, n) THEN <<r5[1], r5[2], r5[3], r5[4]>>
    ELSE LET t1 == r5[1] - n[1]
             t2 == r5[2] - n[2] - borrow_of(t1)
             t3 == r5[3] - n[3] - borrow_of(t2)
             t4 == r5[4] - n[4] - borrow_of(t3)
         IN <<t1 % LIMB, t2 % LIMB, t3 % LIMB, t4 % LIMB>>

\* (2^count * r + the count bits of bs from bit b down) % n, for r < n
RECURSIVE rem_bits(_, _, _, _, _)
rem_bits(bs, b, count, r, n) ==
    IF count = 0 THEN r
    ELSE rem_bits(bs, b - 1, count - 1, reduce(shift_in(r, bit_of(bs, b)), n), n)

\* the remainder modulo n of the bytes k, k - 1, ..., 1 of bs after the
\* remainder r of the bytes above them; leading bytes of 0 leave r at 0
RECURSIVE rem_bytes(_, _, _, _)
rem_bytes(bs, k, r, n) ==
    IF k = 0 THEN r
    ELSE IF r = u64_zero /\ bs[k] = 0 THEN rem_bytes(bs, k - 1, r, n)
    ELSE rem_bytes(bs, k - 1, rem_bits(bs, 8 * k - 1, 8, r, n), n)

\* bs % n for the bytes bs
rem(bs, n) == rem_bytes(bs, Len(bs), u64_zero, n)

\* x * y % n without overflow
mul_mod(x, y, n) == rem(product(x, y), n)

\* the loop of modular_pow on st = [b, acc]: acc * b^exp % n by squaring; an
\* acc of 0 stays 0
RECURSIVE pow_loop(_, _, _)
pow_loop(st, exp, n) ==
    IF exp = u64_zero \/ st.acc = u64_zero THEN st.acc
    ELSE pow_loop([b |-> mul_mod(st.b, st.b, n),
                   acc |-> IF u64_even(exp) THEN st.acc ELSE mul_mod(st.acc, st.b, n)],
                  u64_half(exp), n)

\* ::utils::modular_pow(base, exponent, modulus): base^exponent % modulus
modular_pow(b, exp, n) ==
    pow_loop([b |-> rem(to_bytes(b), n), acc |-> rem(to_bytes(u64_one), n)], exp, n)

\* y == 1 && x != 1 && x != n - 1
nontrivial_root(x, y, n) == y = u64_one /\ x # u64_one /\ x # u64_sub(n, u64_one)

\* The loop of witness on st = [s, x, y, done, aborted, result]: done with
\* aborted or result once it has returned or panicked.

\* if y == 1 && x != 1 && x != n - 1 { return false }  x = y; s -= 1
witness_after(st, y, n) ==
    IF nontrivial_root(st.x, y, n)
    THEN [s |-> st.s, x |-> st.x, y |-> y, done |-> TRUE, aborted |-> FALSE, result |-> FALSE]
    ELSE [s |-> st.s - 1, x |-> y, y |-> y, done |-> FALSE, aborted |-> FALSE,
          result |-> FALSE]

\* y = (x * x) % n with sq the bytes of x * x: the product overflows its u64
\* if it does not fit, where a debug build aborts and a release build wraps
witness_square(st, sq, n, dbg) ==
    IF dbg /\ high_bytes(sq)
    THEN [s |-> st.s, x |-> st.x, y |-> st.y, done |-> TRUE, aborted |-> TRUE,
          result |-> FALSE]
    ELSE witness_after(st, rem(to_bytes(low_u64(sq)), n), n)

\* one turn of  while s != 0 { y = (x * x) % n; ...; x = y; s -= 1 }
witness_turn(st, n, dbg) ==
    IF st.done \/ st.s = 0 THEN st ELSE witness_square(st, product(st.x, st.x), n, dbg)

\* the loop itself, as nested runs of at most 8 turns each: s is at most 63
RECURSIVE witness_turns(_, _, _, _)
witness_turns(st, k, n, dbg) ==
    IF k = 0 \/ st.done \/ st.s = 0 THEN st
    ELSE witness_turns(witness_turn(st, n, dbg), k - 1, n, dbg)

RECURSIVE witness_loop(_, _, _, _)
witness_loop(st, k, n, dbg) ==
    IF k = 0 \/ st.done \/ st.s = 0 THEN st
    ELSE witness_loop(witness_turns(st, 8, n, dbg), k - 1, n, dbg)

\* what witness returns after the loop: y == 1
witness_result(st) ==
    IF st.done THEN [aborted |-> st.aborted, result |-> st.result]
    ELSE [aborted |-> FALSE, result |-> st.y = u64_one]

\* witness(n, s, d, a): [aborted, result]
witness(n, s, d, a, dbg) ==
    witness_result(witness_loop([s |-> s, x |-> modular_pow(as_u64(a), d, n), y |-> u64_zero,
                                 done |-> FALSE, aborted |-> FALSE, result |-> FALSE],
                                8, n, dbg))

\* needed_witnesses
needed_witnesses(v) ==
    IF u64_lt(v, <<2047, 0, 0, 0>>) THEN <<2>>
    ELSE IF u64_lt(v, <<62933, 20, 0, 0>>) THEN <<2, 3>>
    ELSE IF u64_lt(v, <<36223, 138, 0, 0>>) THEN <<31, 73>>
    ELSE IF u64_lt(v, <<29105, 386, 0, 0>>) THEN <<2, 3, 5>>
    ELSE IF u64_lt(v, <<32199, 49057, 0, 0>>) THEN <<2, 3, 5, 7>>
    ELSE IF u64_lt(v, <<29893, 7082, 1, 0>>) THEN <<2, 7, 61>>
    ELSE IF u64_lt(v, <<60987, 7999, 501, 0>>) THEN <<2, 3, 5, 7, 11>>
    ELSE IF u64_lt(v, <<7391, 1848, 809, 0>>) THEN <<2, 3, 5, 7, 11, 13>>
    ELSE IF u64_lt(v, <<51393, 21170, 13987, 1>>) THEN <<2, 3, 5, 7, 11, 13, 17>>
    ELSE <<2, 3, 5, 7, 11, 13, 17, 19, 23, 29, 31, 37>>

RECURSIVE all_witnesses(_, _, _, _, _, _)

\* all() after the closure returned w for witness i: it stops at the first false
all_next(n, s, d, as, i, w, dbg) ==
    IF w.aborted \/ ~w.result THEN w ELSE all_witnesses(n, s, d, as, i + 1, dbg)

\* needed_witnesses(value).iter().all(|&a| witness(value, s, d, a))
all_witnesses(n, s, d, as, i, dbg) ==
    IF i > Len(as) THEN [aborted |-> FALSE, result |-> TRUE]
    ELSE all_next(n, s, d, as, i, witness(n, s, d, as[i], dbg), dbg)

\* while d & 1 == 0 { d /= 2; s += 1 }  and the test
RECURSIVE odd_part(_, _, _, _)
odd_part(v, d, s, dbg) ==
    IF u64_even(d) THEN odd_part(v, u64_half(d), s + 1, dbg)
    ELSE all_witnesses(v, s, d, needed_witnesses(v), 1, dbg)

\* is_prime(value): [aborted, result]
is_prime_value(v, dbg) ==
    IF u64_lt(v, <<2, 0, 0, 0>>) THEN [aborted |-> FALSE, result |-> FALSE]
    ELSE IF v = <<2, 0, 0, 0>> THEN [aborted |-> FALSE, result |-> TRUE]
    ELSE IF u64_even(v) THEN [aborted |-> FALSE, result |-> FALSE]
    ELSE odd_part(v, u64_half(v), 1, dbg)

----------------------------------------------------------------------------
(* The values the operations are called with. *)

\* the values check_prime is queried with
Queries == {0, 1, 2, 3, 4, 9, 100, 101, 997, 1000, 1009, 1013, 1019, 1100}

\* the limits expand is called with
ExpandLimits == {0, 2, 3, 100, 1010, 2000}

\* the u64 values from_value is called with: 0, 1, 9, 10, 99, 100, 12321,
\* 2^16 - 1, 2^16, 2^32 - 1, 2^32, 10^10, 9007199254740993,
\* 1234567890123456789, 2^63, 10^19, 2^64 - 6, 2^64 - 1
U64Values ==
    {<<0, 0, 0, 0>>, <<1, 0, 0, 0>>, <<9, 0, 0, 0>>, <<10, 0, 0, 0>>, <<99, 0, 0, 0>>,
     <<100, 0, 0, 0>>, <<12321, 0, 0, 0>>, <<65535, 0, 0, 0>>, <<0, 1, 0, 0>>,
     <<65535, 65535, 0, 0>>, <<0, 0, 1, 0>>, <<58368, 21515, 2, 0>>, <<1, 0, 0, 32>>,
     <<33045, 32233, 4340, 4386>>, <<0, 0, 0, 32768>>, <<0, 35304, 8964, 35527>>,
     <<65530, 65535, 65535, 65535>>, <<65535, 65535, 65535, 65535>>}

\* n copies of d
Repeat(d, n) == [i \in 1..n |-> d]

\* the decimal digits of 2^64 - 1
U64MaxDigits == <<1, 8, 4, 4, 6, 7, 4, 4, 0, 7, 3, 7, 0, 9, 5, 5, 1, 6, 1, 5>>

\* the decimal digits of 2^64
U64MaxDigitsPlus1 == [U64MaxDigits EXCEPT ![20] = 6]

\* the slices Digits::from_digits is called with: short ones, ones with leading
\* zeros, the largest u64 and the values around it, 21 digits, a digit 10
DigitLists ==
    {<<>>, <<0>>, <<7>>, <<1, 2>>, <<1, 2, 3>>, <<0, 0, 5>>, <<1, 2, 1>>, <<9, 9, 9>>,
     <<1, 2, 3, 4, 5, 6, 7, 8, 9, 0>>, Repeat(9, 19), <<1>> \o Repeat(0, 19),
     <<7, 3, 3, 7>>, <<7, 3, 4, 7>>, <<7, 3, 1, 3, 7>>, <<1, 2, 3, 2, 2>>,
     U64MaxDigits, U64MaxDigitsPlus1, Repeat(9, 20),
     Repeat(1, 21), <<1, 10>>}

\* the digits the small BigDigits operands are made of
BigAlphabet == {0, 5, 9}

\* the BigDigits operands of Add and AddAssign: every digit sequence over
\* BigAlphabet of length at most MaxBigLen
BigOperands == UNION {[1..n -> BigAlphabet] : n \in 0..MaxBigLen}

\* the slices BigDigits::from_digits is called with: the operands, and long
\* ones around the largest u64, with leading zeros, and with a digit 10
BigLists ==
    BigOperands \cup
    {U64MaxDigits, U64MaxDigitsPlus1, <<0, 0, 0>> \o U64MaxDigits,
     <<1>> \o Repeat(0, 20), Repeat(0, 22) \o <<4, 2>>, Repeat(9, 25), <<5, 10>>,
     <<7, 3, 3, 7>>, <<7, 3, 4, 7>>, <<7, 3, 1, 3, 7>>, <<1, 2, 3, 2, 2>>}

\* the seeds is_lycrell_number is called with: 0, 5, 10, 47, 89, 196, 349,
\* 4994, 10677
LychrelSeeds ==
    {<<0, 0, 0, 0>>, <<5, 0, 0, 0>>, <<10, 0, 0, 0>>, <<47, 0, 0, 0>>, <<89, 0, 0, 0>>,
     <<196, 0, 0, 0>>, <<349, 0, 0, 0>>, <<4994, 0, 0, 0>>, <<10677, 0, 0, 0>>}

\* the powers of ten of an i32
PowersOfTen == {exp10(k) : k \in 0..9}

\* the i32 values count_decimal_digits is called with: the powers of ten and
\* the values next to them, some others, the least and the greatest, and the
\* negatives of them all
Magnitudes ==
    {p + d : p \in PowersOfTen, d \in {-1, 0, 1}}
    \cup {12, 55, 255, 256, 12345, 99999999, 2147483646, I32_MAX}
Integers32 == Magnitudes \cup {-m : m \in Magnitudes} \cup {I32_MIN}

\* the variants of the two enums, and every card
Suits == {PokerSuit[i] : i \in 1..Len(PokerSuit)}
Values == {PokerValue[i] : i \in 1..Len(PokerValue)}
Cards == [suit : Suits, value : Values]

\* the ids from_id is called with: every u8
Ids == 0..255

\* the cards of the values vs in the suits ss
Deck(vs, ss) == [suit : ss, value : vs]

\* the cards cs as a slice, the card of the highest id first
RECURSIVE Dealt(_)
Dealt(cs) ==
    IF cs = {} THEN <<>>
    ELSE LET top == CHOOSE c \in cs : \A d \in cs : card_id(d) <= card_id(c)
         IN  <<top>> \o Dealt(cs \ {top})

\* every slice of five different cards of the deck
HandsOf(deck) == {Dealt(h) : h \in {cs \in SUBSET deck : Cardinality(cs) = 5}}

\* the slices PokerHand::new is called with before rank: the hands of spades,
\* the hands of low cards of three suits and of four, and the hands of two
\* suits of the low values and of the high values
Hands ==
    HandsOf(Deck(Values, {"Spades"}))
    \cup HandsOf(Deck({"Two", "Three", "Four", "Five"}, {"Diamonds", "Hearts", "Clubs"}))
    \cup HandsOf(Deck({"Two", "Three"}, Suits))
    \cup HandsOf(Deck({"Two", "Three", "Four", "Five", "Six", "Seven"},
                      {"Diamonds", "Hearts"}))
    \cup HandsOf(Deck({"Eight", "Nine", "Ten", "Jack", "Queen", "King", "Ace"},
                      {"Clubs", "Diamonds"}))

\* the hands determine_winner compares: seven cards of seven values, no
\* three of them of one suit
DuelHands ==
    HandsOf({[suit |-> "Hearts", value |-> "Five"],
             [suit |-> "Clubs", value |-> "Seven"], [suit |-> "Spades", value |-> "Nine"],
             [suit |-> "Diamonds", value |-> "Jack"], [suit |-> "Hearts", value |-> "Queen"],
             [suit |-> "Clubs", value |-> "King"], [suit |-> "Spades", value |-> "Ace"]})

\* the terms of the fractions built by new, zero among them
Terms == 0..3
TermLists == UNION {[1..n -> Terms] : n \in 0..MaxTerms}

\* the fractions built by e and sqrt2
Lens == 0..MaxLen

\* the indexes a fraction is evaluated at: the first ones within its terms,
\* and the one past its last term
Indexes(self) ==
    {i \in 0..MaxIndex : i <= Len(self.remaining)} \cup {Len(self.remaining) + 1}

\* the values is_prime is called with that need more than one limb or stand
\* at a change of needed_witnesses, the primes among them first: 65537, 1000003,
\* 2^31 - 1, 2^32 - 5, 2^32 + 15, 2^61 - 1, 2^64 - 59
LargePrimes ==
    {<<1, 1, 0, 0>>, <<16963, 15, 0, 0>>, <<65535, 32767, 0, 0>>, <<65531, 65535, 0, 0>>,
     <<15, 0, 1, 0>>, <<65535, 65535, 65535, 8191>>, <<65477, 65535, 65535, 65535>>}

\* and the composites: 2047 = 23 * 89, 3277 = 29 * 113, 1373653, 9080191,
\* 25326001, 3215031751, 2^32 - 1, 2^32 + 1 = 641 * 6700417, 4759123141,
\* 1000000007 * 1000000009, (2^32 - 5)^2, 2^64 - 1
LargeComposites ==
    {<<2047, 0, 0, 0>>, <<3277, 0, 0, 0>>, <<62933, 20, 0, 0>>, <<36223, 138, 0, 0>>,
     <<29105, 386, 0, 0>>, <<32199, 49057, 0, 0>>, <<65535, 65535, 0, 0>>,
     <<1, 0, 1, 0>>, <<29893, 7082, 1, 0>>, <<41023, 24848, 46775, 3552>>,
     <<25, 0, 65526, 65535>>, <<65535, 65535, 65535, 65535>>}

\* the greatest of the small values is_prime is called with
MaxSmall == 60

\* the values is_prime is called with
PrimeCandidates == {as_u64(k) : k \in 0..MaxSmall} \cup LargePrimes \cup LargeComposites

\* the operands of the additions of long BigDigits: empty, short, with leading
\* zeros, the largest u64 and the values around it, and more than 20 digits
LongOperands ==
    {<<>>, <<0>>, <<1>>, <<9>>, <<0, 0, 5>>, <<9, 9, 9>>, <<1, 2, 3, 4, 5, 6, 7, 8, 9, 0>>,
     Repeat(9, 19), <<1>> \o Repeat(0, 19), [U64MaxDigits EXCEPT ![20] = 4], U64MaxDigits,
     U64MaxDigitsPlus1, <<0, 0, 0>> \o U64MaxDigits, <<9>> \o Repeat(0, 19),
     Repeat(0, 22) \o <<4, 2>>, Repeat(9, 20), Repeat(9, 25)}

\* the arguments of pad
PadAmounts == 0..MaxPad

\* the arguments of push
PushDigits == {0, 7, 10}

\* the arguments of insert
InsertIndexes == {0, 1, 20}
InsertDigits == {3, 10}

----------------------------------------------------------------------------
(* Initial states. *)

PrimeSetIdle == ps_limit = 0 /\ ps_pc = "idle" /\ is_prime = with_capacity(0)

SieveIdle == sieve = new_sieve /\ emitted = <<>>

CacheIdle ==
    /\ set = new_prime_set.set
    /\ set_sieve = new_prime_set.sieve
    /\ call = [op |-> "new", arg |-> 0, old_limit |-> 0, result |-> FALSE,
               aborted |-> FALSE]

\* a call record of digits and big
Called(op, arg, ret, aborted) ==
    [op |-> op, arg |-> arg, pre |-> digits, pre_big |-> big, ret |-> ret,
     aborted |-> aborted]

DigitsIdle ==
    /\ digits = new
    /\ big = <<>>
    /\ last = [op |-> "new", arg |-> <<>>, pre |-> new, pre_big |-> <<>>, ret |-> None,
               aborted |-> FALSE]
    /\ ops = 0

\* is_lycrell_number(value, max_iterations) about to be called
LychrelCall(seed, max_iterations) ==
    [value |-> seed, max_iterations |-> max_iterations, digits |-> <<>>,
     iterations |-> 0, pc |-> "start", result |-> FALSE]

LychrelIdle == lychrel = [LychrelCall(u64_zero, 0) EXCEPT !.pc = "idle"]

FunctionsIdle == fcall = [op |-> "none"]

InitPrimeSet ==
    /\ ps_limit \in 0..MaxPrimeLimit
    /\ ps_pc = "call"
    /\ is_prime = with_capacity(0)
    /\ debug_assertions = TRUE
    /\ SieveIdle /\ CacheIdle /\ DigitsIdle /\ LychrelIdle /\ FunctionsIdle

InitSieve ==
    /\ debug_assertions \in BOOLEAN
    /\ SieveIdle
    /\ PrimeSetIdle /\ CacheIdle /\ DigitsIdle /\ LychrelIdle /\ FunctionsIdle

InitCache ==
    /\ debug_assertions \in BOOLEAN
    /\ CacheIdle
    /\ PrimeSetIdle /\ SieveIdle /\ DigitsIdle /\ LychrelIdle /\ FunctionsIdle

InitDigits ==
    /\ debug_assertions \in BOOLEAN
    /\ DigitsIdle
    /\ PrimeSetIdle /\ SieveIdle /\ CacheIdle /\ LychrelIdle /\ FunctionsIdle

InitLychrel ==
    /\ debug_assertions \in BOOLEAN
    /\ \E seed \in LychrelSeeds, max_iterations \in 1..MaxIterations :
           lychrel = LychrelCall(seed, max_iterations)
    /\ PrimeSetIdle /\ SieveIdle /\ CacheIdle /\ DigitsIdle /\ FunctionsIdle

InitFunctions ==
    /\ debug_assertions \in BOOLEAN
    /\ FunctionsIdle
    /\ PrimeSetIdle /\ SieveIdle /\ CacheIdle /\ DigitsIdle /\ LychrelIdle

----------------------------------------------------------------------------
(* Actions. *)

\* one call of prime_set(ps_limit)
PrimeSetCall ==
    /\ ps_pc = "call"
    /\ \E r \in {prime_set(ps_limit)} :
          /\ ps_pc' = IF r.aborted THEN "aborted" ELSE "returned"
          /\ is_prime' = r.set
    /\ UNCHANGED <<ps_limit, debug_assertions, inc_vars, ips_vars, dg_vars, more_vars>>

\* one call of sieve.next_prime()
NextPrime ==
    /\ IF emitted = <<>> THEN TRUE ELSE Last(emitted) < MaxEmit
    /\ \E r \in {next_prime(sieve, debug_assertions)} :
          /\ sieve' = r.sieve
          /\ emitted' = Append(emitted, r.prime)
    /\ UNCHANGED <<debug_assertions, ps_vars, ips_vars, dg_vars, more_vars>>

\* one call of check_prime(v) on the IncrementalPrimeSet
CheckPrime(v) ==
    /\ ~call.aborted
    /\ v >= set.length => grown_limit(v, set.length) <= MaxLimit
    /\ \E r \in {check_prime([set |-> set, sieve |-> set_sieve], v, debug_assertions)} :
          /\ set' = r.self.set
          /\ set_sieve' = r.self.sieve
          /\ call' = [op |-> "check_prime", arg |-> v, old_limit |-> set.length,
                      result |-> r.result, aborted |-> r.aborted]
    /\ UNCHANGED <<debug_assertions, ps_vars, inc_vars, dg_vars, more_vars>>

\* one call of expand(lim) on the IncrementalPrimeSet
Expand(lim) ==
    /\ ~call.aborted
    /\ lim <= MaxLimit
    /\ \E r \in {expand([set |-> set, sieve |-> set_sieve], lim, debug_assertions)} :
          /\ set' = r.set
          /\ set_sieve' = r.sieve
          /\ call' = [op |-> "expand", arg |-> lim, old_limit |-> set.length,
                      result |-> FALSE, aborted |-> FALSE]
    /\ UNCHANGED <<debug_assertions, ps_vars, inc_vars, dg_vars, more_vars>>

\* the operations that make a BigDigits
BigConstructors == {"BigDigits::from_digits", "BigDigits::from_value", "BigDigits::from"}

\* the operations of BigDigits
BigOps ==
    BigConstructors \cup
    {"add", "add_assign", "BigDigits::checked_value", "BigDigits::is_palindrome"}

\* the run has gone on to a BigDigits
OnBig == last.op \in BigOps

\* a further call can be made on the Digits
DigitsLive == ~OnBig /\ ~last.aborted /\ ops < MaxOps

\* a further call can be made on the BigDigits
BigLive == OnBig /\ ~last.aborted /\ ops < MaxOps

\* the BigDigits is a freshly built operand of at most MaxBigLen digits: the
\* additions modelled are those of two such operands
FreshOperand == BigLive /\ last.op \in BigConstructors /\ Len(big) <= MaxBigLen

\* what no call on digits or big changes
DigitsFrame == UNCHANGED <<debug_assertions, ps_vars, inc_vars, ips_vars, more_vars>>

\* digits = Digits::from_value(num)
FromValue(num) ==
    /\ ops = 0
    /\ digits' = from_value(num)
    /\ last' = Called("from_value", num, None, FALSE)
    /\ ops' = ops + 1
    /\ UNCHANGED big /\ DigitsFrame

\* digits = Digits::from_digits(ds)
FromDigits(ds) ==
    /\ ops = 0
    /\ \E r \in {from_digits(ds)} :
          /\ digits' = r.self
          /\ last' = Called("from_digits", ds, None, r.aborted)
    /\ ops' = ops + 1
    /\ UNCHANGED big /\ DigitsFrame

\* digits.push(digit)
Push(digit) ==
    /\ DigitsLive
    /\ \E r \in {push(digits, digit)} :
          /\ digits' = r.self
          /\ last' = Called("push", digit, None, r.aborted)
    /\ ops' = ops + 1
    /\ UNCHANGED big /\ DigitsFrame

\* digits.pad(amount)
Pad(amount) ==
    /\ DigitsLive
    /\ \E r \in {pad(digits, amount)} :
          /\ digits' = r.self
          /\ last' = Called("pad", amount, None, r.aborted)
    /\ ops' = ops + 1
    /\ UNCHANGED big /\ DigitsFrame

\* digits.insert(index, digit)
Insert(index, digit) ==
    /\ DigitsLive
    /\ \E r \in {insert_digit(digits, index, digit)} :
          /\ digits' = r.self
          /\ last' = Called("insert", <<index, digit>>, None, r.aborted)
    /\ ops' = ops + 1
    /\ UNCHANGED big /\ DigitsFrame

\* digits.reverse()
Reverse ==
    /\ DigitsLive
    /\ digits' = reverse(digits)
    /\ last' = Called("reverse", <<>>, None, FALSE)
    /\ ops' = ops + 1
    /\ UNCHANGED big /\ DigitsFrame

\* digits.value()
Value ==
    /\ DigitsLive
    /\ \E r \in {value(digits, debug_assertions)} :
          last' = Called("value", <<>>, Some(r.val), r.aborted)
    /\ ops' = ops + 1
    /\ UNCHANGED <<digits, big>> /\ DigitsFrame

\* digits.checked_value()
CheckedValue ==
    /\ DigitsLive
    /\ last' = Called("checked_value", <<>>, checked_value(digits), FALSE)
    /\ ops' = ops + 1
    /\ UNCHANGED <<digits, big>> /\ DigitsFrame

\* big = BigDigits::from_digits(ds)
BigFromDigits(ds) ==
    /\ ops = 0
    /\ \E r \in {big_from_digits(ds)} :
          /\ big' = r.self
          /\ last' = Called("BigDigits::from_digits", ds, None, r.aborted)
    /\ ops' = ops + 1
    /\ UNCHANGED digits /\ DigitsFrame

\* big = BigDigits::from_value(num)
BigFromValue(num) ==
    /\ ops = 0
    /\ big' = big_from_value(num)
    /\ last' = Called("BigDigits::from_value", num, None, FALSE)
    /\ ops' = ops + 1
    /\ UNCHANGED digits /\ DigitsFrame

\* big = BigDigits::from(digits)
BigFrom ==
    /\ DigitsLive
    /\ big' = big_from(digits)
    /\ last' = Called("BigDigits::from", <<>>, None, FALSE)
    /\ ops' = ops + 1
    /\ UNCHANGED digits /\ DigitsFrame

\* big = big + rhs
BigAdd(rhs) ==
    /\ FreshOperand
    /\ \E r \in {add(big, rhs, debug_assertions)} :
          /\ big' = r.self
          /\ last' = Called("add", rhs, None, r.aborted)
    /\ ops' = ops + 1
    /\ UNCHANGED digits /\ DigitsFrame

\* big += rhs
BigAddAssign(rhs) ==
    /\ FreshOperand
    /\ \E r \in {add_assign(big, rhs, debug_assertions)} :
          /\ big' = r.self
          /\ last' = Called("add_assign", rhs, None, r.aborted)
    /\ ops' = ops + 1
    /\ UNCHANGED digits /\ DigitsFrame

\* big.checked_value()
BigCheckedValue ==
    /\ BigLive
    /\ last' = Called("BigDigits::checked_value", <<>>, big_checked_value(big), FALSE)
    /\ ops' = ops + 1
    /\ UNCHANGED <<digits, big>> /\ DigitsFrame

\* digits.is_palindrome()
IsPalindrome ==
    /\ DigitsLive
    /\ last' = Called("is_palindrome", <<>>, digits_is_palindrome(digits), FALSE)
    /\ ops' = ops + 1
    /\ UNCHANGED <<digits, big>> /\ DigitsFrame

\* big.is_palindrome()
BigIsPalindrome ==
    /\ BigLive
    /\ last' = Called("BigDigits::is_palindrome", <<>>, big_is_palindrome(big), FALSE)
    /\ ops' = ops + 1
    /\ UNCHANGED <<digits, big>> /\ DigitsFrame

\* what the call of is_lycrell_number does not change
LychrelFrame == UNCHANGED <<debug_assertions, ps_vars, inc_vars, ips_vars, dg_vars, fcall>>

\* is_lycrell_number is entered
LychrelStart ==
    /\ lychrel.pc = "start"
    /\ lychrel' = lychrel_start(lychrel)
    /\ LychrelFrame

\* one turn of the loop of is_lycrell_number
LychrelTurn ==
    /\ lychrel.pc = "loop"
    /\ lychrel' = lychrel_turn(lychrel, debug_assertions)
    /\ LychrelFrame

\* what a call of a function of its arguments alone does not change
FunctionFrame ==
    UNCHANGED <<debug_assertions, ps_vars, inc_vars, ips_vars, dg_vars, lychrel>>

\* IntegerLogarithm::count_decimal_digits(&n)
CountDecimalDigits(n) ==
    /\ FunctionsIdle
    /\ \E r \in {count_decimal_digits(n, debug_assertions)} :
          fcall' = [op |-> "count_decimal_digits", arg |-> n, ret |-> r.val,
                    aborted |-> r.aborted]
    /\ FunctionFrame

\* s.id() for a suit s
SuitId(s) ==
    /\ FunctionsIdle
    /\ fcall' = [op |-> "PokerSuit::id", arg |-> s, ret |-> suit_id(s), aborted |-> FALSE]
    /\ FunctionFrame

\* PokerSuit::from_id(id), for the id of a suit or any other
SuitFromId(id) ==
    /\ FunctionsIdle
    /\ fcall' = [op |-> "PokerSuit::from_id", arg |-> id, ret |-> suit_from_id(id),
                 aborted |-> FALSE]
    /\ FunctionFrame

\* v.id() for a value v
ValueId(v) ==
    /\ FunctionsIdle
    /\ fcall' = [op |-> "PokerValue::id", arg |-> v, ret |-> value_id(v), aborted |-> FALSE]
    /\ FunctionFrame

\* PokerValue::from_id(id)
ValueFromId(id) ==
    /\ FunctionsIdle
    /\ fcall' = [op |-> "PokerValue::from_id", arg |-> id, ret |-> value_from_id(id),
                 aborted |-> FALSE]
    /\ FunctionFrame

\* c.id() for a card c
CardId(c) ==
    /\ FunctionsIdle
    /\ fcall' = [op |-> "PokerCard::id", arg |-> c, ret |-> card_id(c), aborted |-> FALSE]
    /\ FunctionFrame

\* PokerCard::from_id(id)
CardFromId(id) ==
    /\ FunctionsIdle
    /\ fcall' = [op |-> "PokerCard::from_id", arg |-> id, ret |-> card_from_id(id),
                 aborted |-> FALSE]
    /\ FunctionFrame

\* PokerHand::new(cards).rank()
RankHand(cards) ==
    /\ FunctionsIdle
    /\ \E h \in {hand_new(cards)} : \E r \in {rank(h, debug_assertions)} :
          fcall' = [op |-> "rank", arg |-> cards, hand |-> h.cards, ret |-> r.rank,
                    aborted |-> h.aborted \/ r.aborted]
    /\ FunctionFrame

\* PokerHand::new(a).determine_winner(&PokerHand::new(b))
DetermineWinner(a, b) ==
    /\ FunctionsIdle
    /\ \E h \in {hand_new(a)}, o \in {hand_new(b)} :
          \E r \in {determine_winner(h, o, debug_assertions)} :
             fcall' = [op |-> "determine_winner", arg |-> <<a, b>>,
                       hand |-> <<h.cards, o.cards>>, ret |-> r.ordering,
                       aborted |-> h.aborted \/ o.aborted \/ r.aborted]
    /\ FunctionFrame

\* self.eval_big_convergent(index)
EvalBigConvergent(ctor, self, index) ==
    /\ FunctionsIdle
    /\ \E r \in {eval_big_convergent(self, index)} :
          fcall' = [op |-> "eval_big_convergent", arg |-> [ctor |-> ctor, self |-> self, index |-> index],
                    ret |-> r.ratio, aborted |-> r.aborted]
    /\ FunctionFrame

\* ContinuedFraction::new(first, remaining).eval_big_convergent(index)
EvalNew ==
    /\ FunctionsIdle
    /\ \E first \in Terms, remaining \in TermLists :
          \E index \in Indexes(cf_new(first, remaining)) :
              EvalBigConvergent("new", cf_new(first, remaining), index)

\* ContinuedFraction::e(len).eval_big_convergent(index)
EvalE ==
    /\ FunctionsIdle
    /\ \E len \in Lens : \E index \in Indexes(e(len)) :
          EvalBigConvergent("e", e(len), index)

\* ContinuedFraction::sqrt2(len).eval_big_convergent(index)
EvalSqrt2 ==
    /\ FunctionsIdle
    /\ \E len \in Lens : \E index \in Indexes(sqrt2(len)) :
          EvalBigConvergent("sqrt2", sqrt2(len), index)

\* is_prime(v)
IsPrime(v) ==
    /\ FunctionsIdle
    /\ \E r \in {is_prime_value(v, debug_assertions)} :
          fcall' = [op |-> "is_prime", arg |-> v, ret |-> r.result, aborted |-> r.aborted]
    /\ FunctionFrame

\* BigDigits(a) + BigDigits(b) for two operands of any length
AddLong(a, b) ==
    /\ FunctionsIdle
    /\ \E r \in {add(a, b, debug_assertions)} :
          fcall' = [op |-> "add", arg |-> <<a, b>>, ret |-> r.self, aborted |-> r.aborted]
    /\ FunctionFrame

NextPrimeSet == PrimeSetCall

NextSieve == NextPrime

NextCache ==
    \/ \E v \in Queries : CheckPrime(v)
    \/ \E lim \in ExpandLimits : Expand(lim)

NextDigits ==
    \/ \E num \in U64Values : FromValue(num)
    \/ \E ds \in DigitLists : FromDigits(ds)
    \/ \E digit \in PushDigits : Push(digit)
    \/ \E amount \in PadAmounts : Pad(amount)
    \/ \E index \in InsertIndexes, digit \in InsertDigits : Insert(index, digit)
    \/ Reverse
    \/ Value
    \/ CheckedValue
    \/ \E ds \in BigLists : BigFromDigits(ds)
    \/ \E num \in U64Values : BigFromValue(num)
    \/ BigFrom
    \/ \E rhs \in BigOperands : BigAdd(rhs)
    \/ \E rhs \in BigOperands : BigAddAssign(rhs)
    \/ BigCheckedValue
    \/ IsPalindrome
    \/ BigIsPalindrome

NextLychrel == LychrelStart \/ LychrelTurn

NextFunctions ==
    \/ \E n \in Integers32 : CountDecimalDigits(n)
    \/ \E s \in Suits : SuitId(s)
    \/ \E v \in Values : ValueId(v)
    \/ \E c \in Cards : CardId(c)
    \/ \E id \in Ids : SuitFromId(id) \/ ValueFromId(id) \/ CardFromId(id)
    \/ EvalNew
    \/ EvalE
    \/ EvalSqrt2

NextPoker ==
    \/ \E cards \in Hands : RankHand(cards)
    \/ \E a \in DuelHands, b \in DuelHands : DetermineWinner(a, b)

NextIsPrime == \E v \in PrimeCandidates : IsPrime(v)

NextBigAdd == \E a \in LongOperands, b \in LongOperands : AddLong(a, b)

\* prime_set called once with each limit
SpecPrimeSet == InitPrimeSet /\ [][NextPrimeSet]_vars

\* a fresh IncrementalSieve iterated by next_prime
SpecSieve == InitSieve /\ [][NextSieve]_vars

\* a fresh IncrementalPrimeSet under any sequence of check_prime and expand calls
SpecCache == InitCache /\ [][NextCache]_vars

\* is_lycrell_number called once with each seed and each max_iterations
SpecLychrel == InitLychrel /\ [][NextLychrel]_vars

\* one addition of two BigDigits of any length
SpecBigAdd == InitFunctions /\ [][NextBigAdd]_vars

\* one hand ranked, or two hands compared
SpecPoker == InitFunctions /\ [][NextPoker]_vars

\* one call of is_prime
SpecIsPrime == InitFunctions /\ [][NextIsPrime]_vars

\* one call of a function of its arguments alone
SpecFunctions == InitFunctions /\ [][NextFunctions]_vars

\* a Digits built by new, from_value or from_digits and then operated on, or
\* converted to a BigDigits, or a BigDigits built and then operated on
SpecDigits == InitDigits /\ [][NextDigits]_vars

----------------------------------------------------------------------------
(* What the properties below are stated with: numbers and digit sequences as
   mathematics has them, computed without the operators of the model above. *)

\* s backwards
Backwards(s) == [i \in 1..Len(s) |-> s[Len(s) + 1 - i]]

\* the digit sequence ds (most significant first) without its leading zeros
RECURSIVE Stripped(_)
Stripped(ds) == IF ds # <<>> /\ Head(ds) = 0 THEN Stripped(Tail(ds)) ELSE ds

\* the natural number the digit sequence ds (most significant first) stands for
RECURSIVE NatValue(_)
NatValue(ds) ==
    IF ds = <<>> THEN 0 ELSE 10 * NatValue(SubSeq(ds, 1, Len(ds) - 1)) + ds[Len(ds)]

\* 10^n
RECURSIVE Pow10(_)
Pow10(n) == IF n = 0 THEN 1 ELSE 10 * Pow10(n - 1)

\* the decimal digits from position i on, least significant first, of
\* dec * 2^16 + carry, for dec a decimal number, least significant digit first
RECURSIVE DecMulAdd(_, _, _)
DecMulAdd(dec, i, carry) ==
    IF i > Len(dec) THEN <<>>
    ELSE <<(dec[i] * LIMB + carry) % 10>>
         \o DecMulAdd(dec, i + 1, (dec[i] * LIMB + carry) \div 10)

\* the decimal digits, most significant first and without leading zeros, of the
\* number whose 16-bit limbs are x: <<>> for 0
Decimal(x) ==
    Stripped(Backwards(
        DecMulAdd(DecMulAdd(DecMulAdd(DecMulAdd(Repeat(0, 20), 1, x[4]), 1, x[3]), 1, x[2]),
                  1, x[1])))

\* a comes before b, or is b, in the order of digit sequences of one length
LexLE(a, b) ==
    a = b \/ \E i \in 1..Len(a) : a[i] < b[i] /\ \A j \in 1..(i - 1) : a[j] = b[j]

\* the number the digit sequence ds stands for is at most 2^64 - 1
FitsU64(ds) ==
    \/ Len(Stripped(ds)) < 20
    \/ Len(Stripped(ds)) = 20 /\ LexLE(Stripped(ds), U64MaxDigits)

\* checked_value returned ret for the digit sequence ds as it should: Some(x)
\* with x the number ds stands for if that is at most 2^64 - 1, else None
CheckedValueOf(ds, ret) ==
    IF FitsU64(ds) THEN ret.some /\ Decimal(ret.val) = Stripped(ds) ELSE ~ret.some

\* seq is strictly increasing
Increasing(seq) == \A i \in 1..(Len(seq) - 1) : seq[i] < seq[i + 1]

\* seq up to, and without, its first value >= L
Truncated(seq, L) ==
    SubSeq(seq, 1, Cardinality({k \in 1..Len(seq) : \A j \in 1..k : seq[j] < L}))

----------------------------------------------------------------------------
(* The properties. *)

\* C1: every answer check_prime(v) on a fresh IncrementalPrimeSet, after any
\* sequence of check_prime and expand calls, is TRUE exactly if v is prime.
\* Stated for the build with debug assertions, where the sieve under the cache
\* emits every prime.
CacheConsistency ==
    (debug_assertions /\ call.op = "check_prime" /\ ~call.aborted)
        => (call.result <=> IsPrimeNumber(call.arg))

\* C2: for every bound L >= 2 the values next_prime has returned, truncated at
\* the first value >= L, are the list primes(L), once a value >= L has been
\* returned.
SieveMatchesPrimes ==
    emitted # <<>> => \A L \in 2..Last(emitted) : Truncated(emitted, L) = primes(L)

\* C3: for every limit >= 2, prime_set(limit) returns a bitset of length limit
\* whose bit i is set exactly if i is prime, and primes(limit) lists those i in
\* increasing order.
PrimeSetCorrect ==
    (ps_pc # "call" /\ ps_limit >= 2) =>
        /\ ps_pc = "returned"
        /\ is_prime.length = ps_limit
        /\ \A i \in 0..(ps_limit - 1) : contains(is_prime, i) <=> IsPrimeNumber(i)
        /\ is_prime.ones \subseteq 0..(ps_limit - 1)
        /\ Increasing(primes(ps_limit))
        /\ {primes(ps_limit)[k] : k \in 1..Len(primes(ps_limit))}
               = {i \in 0..(ps_limit - 1) : IsPrimeNumber(i)}

\* C3 happens: prime_set(50) has returned, with 47 in the set and 49 not
PrimeSetCorrectWitness ==
    /\ ps_pc = "returned" /\ ps_limit = 50
    /\ contains(is_prime, 47) /\ ~contains(is_prime, 49)
    /\ Last(primes(ps_limit)) = 47

\* C4: prime_set(limit) for limit in {0, 1, 2} returns, with a bitset of length
\* limit and no bit set.
PrimeSetSmallLimits ==
    (ps_pc # "call" /\ ps_limit \in {0, 1, 2}) =>
        /\ ps_pc = "returned"
        /\ is_prime.length = ps_limit
        /\ is_prime.ones = {}

\* C5: pad(amount) on a Digits of length len < amount <= 20, when it returns,
\* leaves length amount: amount - len zeros and then the digits there were, in
\* their order; value() is what it was.
PadKeepsDigits ==
    (last.op = "pad" /\ ~last.aborted /\ last.pre.len < last.arg /\ last.arg <= 20) =>
        /\ digits.len = last.arg
        /\ as_slice(digits) = Repeat(0, last.arg - last.pre.len) \o as_slice(last.pre)
        /\ value(digits, debug_assertions) = value(last.pre, debug_assertions)

\* C6: pad(amount) fails exactly if amount exceeds 20.
PadFailsOnlyAbove20 ==
    last.op = "pad" => (last.aborted <=> last.arg > 20)

\* C7: for every u64 n, from_value(n).value() is n and
\* from_value(n).checked_value() is Some(n); from_value(0) is [0], and for
\* n > 0 the digits are those of n, most significant first, the first not 0.
FromValueRoundTrip ==
    last.op = "from_value" =>
        /\ value(digits, debug_assertions) = [aborted |-> FALSE, val |-> last.arg]
        /\ checked_value(digits) = Some(last.arg)
        /\ last.arg = u64_zero => as_slice(digits) = <<0>>
        /\ last.arg # u64_zero =>
               as_slice(digits) = Decimal(last.arg) /\ at(digits.values, 0) # 0

\* C7 happens: from_value(2^64 - 1) has returned its twenty digits
FromValueRoundTripWitness ==
    /\ last.op = "from_value" /\ last.arg = u64_max
    /\ as_slice(digits) = U64MaxDigits

\* C8: checked_value() of a Digits and of a BigDigits is Some(x), x the number
\* the digits stand for, if x <= 2^64 - 1, and None otherwise.
CheckedValueRight ==
    /\ last.op = "checked_value" => CheckedValueOf(as_slice(digits), last.ret)
    /\ last.op = "BigDigits::checked_value" => CheckedValueOf(big, last.ret)

\* C8 happens: checked_value() has returned None for the digits of 2^64
CheckedValueRightWitness ==
    /\ last.op \in {"checked_value", "BigDigits::checked_value"}
    /\ ~last.ret.some
    /\ U64MaxDigitsPlus1 \in {as_slice(digits), big}

\* C9: a + b returns digits below 10 that stand for x + y, as many as the
\* longer operand has, and one more exactly if the last carry is 1, that is if
\* x + y >= 10^max(len(a), len(b)); a += b leaves the same.
AddRight ==
    last.op \in {"add", "add_assign"} =>
        /\ ~last.aborted
        /\ \A i \in 1..Len(big) : big[i] \in 0..9
        /\ NatValue(big) = NatValue(last.pre_big) + NatValue(last.arg)
        /\ Len(big) = Max(Len(last.pre_big), Len(last.arg))
                      + (IF NatValue(last.pre_big) + NatValue(last.arg)
                              >= Pow10(Max(Len(last.pre_big), Len(last.arg)))
                         THEN 1 ELSE 0)
        /\ big = add(last.pre_big, last.arg, debug_assertions).self
        /\ big = add_assign(last.pre_big, last.arg, debug_assertions).self

\* C9 happens: 999 + 5 has returned 1004
AddRightWitness ==
    /\ last.op = "add" /\ last.pre_big = <<9, 9, 9>> /\ last.arg = <<5>>
    /\ big = <<1, 0, 0, 4>>

\* C10: check_prime(value) with value >= limit() leaves the limit
\* max(value + 1000, 2 * old limit), which is above value; no call of expand
\* or check_prime lowers the limit; expand(l) with l <= limit() changes nothing.
GrowthPolicy ==
    [][/\ set'.length >= set.length
       /\ (call'.op = "check_prime" /\ call'.arg >= set.length) =>
              /\ set'.length = Max(call'.arg + 1000, 2 * set.length)
              /\ set'.length > call'.arg
       /\ (call'.op = "expand" /\ call'.arg <= set.length) =>
              set' = set /\ set_sieve' = set_sieve]_vars

\* C10 happens: check_prime(value) with value >= limit() has doubled a limit
\* that value + 1000 is below
GrowthPolicyWitness ==
    /\ call.op = "check_prime" /\ call.arg >= call.old_limit
    /\ set.length = 2 * call.old_limit
    /\ call.arg + 1000 < set.length

\* C11: check_prime(value) with value < limit() changes nothing of the cache:
\* not the bitset or its length, and no field of the sieve under it (bi, lowi,
\* bpa, buf, the nested sieve), so no prime is pulled from the sieve.
QueryBelowLimitFrame ==
    [][(call'.op = "check_prime" /\ call'.arg < set.length) =>
           /\ set' = set
           /\ set_sieve' = set_sieve
           /\ ~call'.aborted]_vars

\* C11 happens: check_prime(997) was asked of a cache of limit 1000 whose sieve
\* has been used, and answered TRUE
QueryBelowLimitFrameWitness ==
    /\ call.op = "check_prime" /\ call.arg = 997 /\ call.old_limit = 1000
    /\ set.length = 1000 /\ set_sieve.bi # <<>> /\ set_sieve.bpa # <<>>
    /\ call.result

\* the digits the last is_palindrome call was made on
PalindromeArg == IF last.op = "is_palindrome" THEN as_slice(digits) ELSE big

\* the middle position of a sequence of odd length
Middle(ds) == (Len(ds) + 1) \div 2

\* C12: is_palindrome(d) is TRUE exactly if d is its own reversal, for d of any
\* length; for odd length the answer is the same whatever the middle digit is.
PalindromeRight ==
    last.op \in {"is_palindrome", "BigDigits::is_palindrome"} =>
        /\ last.ret <=> (PalindromeArg = Backwards(PalindromeArg))
        /\ Len(PalindromeArg) % 2 = 1 =>
               \A m \in 0..9 :
                   is_palindrome([PalindromeArg EXCEPT ![Middle(PalindromeArg)] = m])
                       = last.ret

\* C12 happens: is_palindrome has answered TRUE for 7, 3, 1, 3, 7
PalindromeRightWitness ==
    /\ last.op \in {"is_palindrome", "BigDigits::is_palindrome"}
    /\ PalindromeArg = <<7, 3, 1, 3, 7>>
    /\ last.ret = TRUE

\* the decimal digits of the u64 x, most significant first: 0 has the digit 0
DigitsOfU64(x) == IF Decimal(x) = <<>> THEN <<0>> ELSE Decimal(x)

\* the sums of the digits of n and of n reversed, position by position (the
\* same from either end)
PairSums(ds) == [i \in 1..Len(ds) |-> ds[i] + ds[Len(ds) + 1 - i]]

\* the carries of adding up the columns s, least significant first: the carry
\* into each column, and last the carry out of the top column
RECURSIVE Carries(_, _)
Carries(s, cs) ==
    IF Len(cs) > Len(s) THEN cs
    ELSE Carries(s, Append(cs, IF s[Len(cs)] + cs[Len(cs)] >= 10 THEN 1 ELSE 0))

\* the digits, most significant first, of the sum whose columns are s and
\* whose carries are cs
SumDigits(s, cs) ==
    (IF cs[Len(s) + 1] = 1 THEN <<1>> ELSE <<>>)
    \o [p \in 1..Len(s) |-> (s[Len(s) + 1 - p] + cs[Len(s) + 1 - p]) % 10]

\* the digits of n + reverse(n), for n the number with the digits ds
ReverseAndAdd(ds) == SumDigits(PairSums(ds), Carries(PairSums(ds), <<0>>))

\* the least k in from..m for which the number reached from ds by k - from + 1
\* steps n = n + reverse(n) is a palindrome, or 0 if there is none
RECURSIVE FirstPalindrome(_, _, _)
FirstPalindrome(ds, from, m) ==
    IF from > m THEN 0
    ELSE IF ReverseAndAdd(ds) = Backwards(ReverseAndAdd(ds)) THEN from
    ELSE FirstPalindrome(ReverseAndAdd(ds), from + 1, m)

\* the step that ends is_lycrell_number(value, m), as the claim has it: the
\* first k <= m that reaches a palindrome, or 0 for none
LychrelEnd == FirstPalindrome(DigitsOfU64(lychrel.value), 1, lychrel.max_iterations)

\* C13: is_lycrell_number(value, m) with m >= 1 makes at most m
\* reverse-and-add steps and returns; it returns FALSE exactly if n = n +
\* reverse(n) reaches a palindrome after some k steps, 1 <= k <= m, having
\* stopped at the first such k; the seed itself is not tested.
LychrelRight ==
    /\ lychrel.pc # "aborted"
    /\ lychrel.pc = "loop" => lychrel.iterations < lychrel.max_iterations
    /\ lychrel.pc = "returned" =>
           /\ lychrel.result <=> (LychrelEnd = 0)
           /\ lychrel.iterations
                  = (IF LychrelEnd = 0 THEN lychrel.max_iterations ELSE LychrelEnd - 1)

\* C13 happens: is_lycrell_number(349, 3) has returned FALSE on its third step
\* with the palindrome 7337
LychrelRightWitness ==
    /\ lychrel.pc = "returned" /\ ~lychrel.result
    /\ lychrel.value = <<349, 0, 0, 0>> /\ lychrel.max_iterations = 3
    /\ lychrel.iterations = 2 /\ lychrel.digits = <<7, 3, 3, 7>>

\* is_lycrell_number(4994, 50), of a palindromic seed, has returned TRUE
LychrelPalindromicSeed ==
    /\ lychrel.pc = "returned" /\ lychrel.result
    /\ lychrel.value = <<4994, 0, 0, 0>> /\ lychrel.max_iterations = 50

DigitsInvariant ==
    /\ ~last.aborted =>
           /\ digits.len <= 20
           /\ \A i \in 1..digits.len : digits.values[i] \in 0..9
    /\ (last.op = "push" /\ (last.arg >= 10 \/ last.pre.len = 20)) =>
           last.aborted /\ digits = last.pre
    /\ (last.op = "insert" /\ last.arg[2] >= 10) =>
           last.aborted /\ digits = last.pre
    /\ (last.op = "from_digits"
            /\ (Len(last.arg) > 20 \/ \E i \in 1..Len(last.arg) : last.arg[i] >= 10)) =>
           last.aborted

\* C15 happens: push(7) on the twenty digits of 2^64 - 1 has aborted
DigitsInvariantWitness ==
    /\ last.op = "push" /\ last.arg = 7 /\ last.aborted
    /\ as_slice(last.pre) = U64MaxDigits /\ digits = last.pre

\* C16: a Digits that from_value, from_digits, push, insert, pad and reverse
\* have returned has 0 as its first digit only if all its digits are 0.
LeadingZeroOnlyForZero ==
    (~last.aborted /\ digits.len > 0 /\ at(digits.values, 0) = 0) =>
        \A i \in 1..digits.len : digits.values[i] = 0

\* C16 as it holds: the Digits from_value(n) returns has 0 as its first digit
\* only for n = 0, and then it is the one digit 0.
FromValueLeadingDigit ==
    (last.op = "from_value" /\ at(digits.values, 0) = 0) =>
        last.arg = u64_zero /\ digits.len = 1

\* from_value(100) has returned 1, 0, 0
FromValueLeadingDigitWitness ==
    /\ last.op = "from_value" /\ last.arg = <<100, 0, 0, 0>>
    /\ as_slice(digits) = <<1, 0, 0>>

\* the number of decimal digits of |n|, 1 for 0
RECURSIVE CountDigits(_)
CountDigits(n) == IF -10 < n /\ n < 10 THEN 1 ELSE 1 + CountDigits(div(n, 10))

\* C17: count_decimal_digits(n) returns the number of decimal digits of |n|,
\* 1 for n = 0, for every n, the powers of ten among them.
CountDecimalDigitsRight ==
    fcall.op = "count_decimal_digits" =>
        ~fcall.aborted /\ fcall.ret = CountDigits(fcall.arg)

\* count_decimal_digits(12345) has returned 5
CountDecimalDigitsExample ==
    fcall.op = "count_decimal_digits" /\ fcall.arg = 12345 /\ fcall.ret = 5

\* C18: the ids round-trip, from_id(x.id()) = Some(x) for every suit, value
\* and card x, and distinct variants have distinct ids.
IdsRoundTrip ==
    /\ fcall.op = "PokerSuit::id" => suit_from_id(fcall.ret) = <<fcall.arg>>
    /\ fcall.op = "PokerValue::id" => value_from_id(fcall.ret) = <<fcall.arg>>
    /\ fcall.op = "PokerCard::id" => card_from_id(fcall.ret) = <<fcall.arg>>

\* distinct variants have distinct ids
IdsDistinct ==
    /\ fcall.op = "PokerSuit::id" =>
          \A s \in Suits : suit_id(s) = fcall.ret => s = fcall.arg
    /\ fcall.op = "PokerValue::id" =>
          \A v \in Values : value_id(v) = fcall.ret => v = fcall.arg
    /\ fcall.op = "PokerCard::id" =>
          \A c \in Cards : card_id(c) = fcall.ret => c = fcall.arg

\* the numerators h and denominators k of the convergents of [first; r[1], r[2], ...]
\* by the recurrence h[j] = r[j] * h[j-1] + h[j-2], from turn j to index
RECURSIVE Convergent(_, _, _, _)
Convergent(r, j, index, c) ==
    IF j > index THEN c
    ELSE Convergent(r, j + 1, index,
                    [hp |-> c.h, h |-> r[j] * c.h + c.hp, kp |-> c.k, k |-> r[j] * c.k + c.kp])

\* first + 1/(r[1] + 1/(r[2] + ... + 1/r[index])) as h / k
NestedFraction(self, index) ==
    Convergent(self.remaining, 1, index, [hp |-> 1, h |-> self.first_digit, kp |-> 0, k |-> 1])

\* the ratio is c.h / c.k in lowest terms
RatioIs(ratio, c) ==
    /\ ratio.denom > 0
    /\ gcd(ratio.numer, ratio.denom) = 1
    /\ ratio.numer * c.k = ratio.denom * c.h

\* the call returned the ratio numer / denom
Returned(self, index, numer, denom) ==
    (fcall.arg.self = self /\ fcall.arg.index = index) =>
        ~fcall.aborted /\ fcall.ret = [numer |-> numer, denom |-> denom]

\* C19: eval_big_convergent(index) is a0 for index = 0 and
\* a0 + 1/(r[0] + 1/(r[1] + ... + 1/r[index-1])) for 0 < index <= n, where that
\* is defined (a last term of 0 divides by zero, and the call aborts), and it
\* aborts for index > n; e(20) gives 2, 3, 8/3, 11/4 and sqrt2(20) gives
\* 1, 3/2, 7/5, 17/12 at the indexes 0..3.
ConvergentRight ==
    fcall.op = "eval_big_convergent" =>
        /\ IF fcall.arg.index > Len(fcall.arg.self.remaining) THEN fcall.aborted
           ELSE IF fcall.arg.index > 0 /\ fcall.arg.self.remaining[fcall.arg.index] = 0
                THEN fcall.aborted
           ELSE ~fcall.aborted
                /\ RatioIs(fcall.ret, NestedFraction(fcall.arg.self, fcall.arg.index))
        /\ Returned(e(20), 0, 2, 1) /\ Returned(e(20), 1, 3, 1)
        /\ Returned(e(20), 2, 8, 3) /\ Returned(e(20), 3, 11, 4)
        /\ Returned(sqrt2(20), 0, 1, 1) /\ Returned(sqrt2(20), 1, 3, 2)
        /\ Returned(sqrt2(20), 2, 7, 5) /\ Returned(sqrt2(20), 3, 17, 12)

\* a convergent over three terms that are not all alike has been evaluated
ConvergentRightWitness ==
    /\ fcall.op = "eval_big_convergent"
    /\ fcall.arg.self = cf_new(1, <<2, 0, 3>>)
    /\ fcall.arg.index = 3
    /\ fcall.ret = [numer |-> 6, denom |-> 5]

\* C20: once the sieve has moved past page zero its first base prime is 3 and
\* bpa does not contain 2, with debug assertions compiled in or out.
BaseNeverHoldsTwo ==
    sieve.bpa # <<>> =>
        /\ sieve.bpa[1] = 3
        /\ \A i \in 1..Len(sieve.bpa) : sieve.bpa[i] # 2

\* the same with debug assertions compiled in only
BaseNeverHoldsTwoInDebug == debug_assertions => BaseNeverHoldsTwo

\* the smallest prime >= n
RECURSIVE PrimeFrom(_)
PrimeFrom(n) == IF IsPrimeNumber(n) THEN n ELSE PrimeFrom(n + 1)

\* the last call was an expand or a check_prime that grew the bitset
Grew == call.op \in {"expand", "check_prime"} /\ set.length > call.old_limit

\* C21: after every expand or check_prime call that grew the bitset, the value
\* the owned sieve would emit next is the smallest prime >= limit(). Stated for
\* the build with debug assertions, where the sieve emits every prime.
SieveAtHorizon ==
    (debug_assertions /\ Grew) =>
        next_prime(set_sieve, debug_assertions).prime = PrimeFrom(set.length)

\* what holds instead: the smallest prime >= limit() has been pulled and
\* dropped, and the sieve would emit the prime after it
SievePastHorizon ==
    (debug_assertions /\ Grew) =>
        next_prime(set_sieve, debug_assertions).prime = PrimeFrom(PrimeFrom(set.length) + 1)

\* the page of the sieve s has been sieved: a value has been returned from it
Sieved(s) == s.bi # <<>> /\ s.bi[1] >= 1

\* buffer bit i of s is set exactly if 3 + 2 * (lowi + i) is composite
PageRight(s) ==
    \A i \in 0..(BFBTS - 1) : bit_set(s.buf, i) <=> ~IsPrimeNumber(3 + 2 * (s.lowi + i))

\* C22: on every page that has been sieved, of the sieve and of its nested
\* base-prime sieve, buffer bit i is set exactly if 3 + 2 * (lowi + i) is
\* composite, for every i in 0..BFBTS-1, on page zero and on the later pages.
PagesRight ==
    /\ Sieved(sieve) => PageRight(sieve)
    /\ (sieve.bps # <<>> /\ Sieved(sieve.bps[1])) => PageRight(sieve.bps[1])

\* the same with debug assertions compiled in only
PagesRightInDebug == debug_assertions => PagesRight

\* a page after page zero has been sieved with debug assertions compiled in
PagesRightInDebugReached ==
    debug_assertions /\ Sieved(sieve) /\ sieve.lowi > 0 /\ Len(sieve.bpa) > 2

\* the nested sieves of s are on strictly lower pages, down to one on page zero
RECURSIVE ChainDescends(_)
ChainDescends(s) ==
    IF s.lowi > 0
    THEN s.bps # <<>> /\ s.bps[1].lowi < s.lowi /\ ChainDescends(s.bps[1])
    ELSE TRUE

\* C23: every next_prime call returns a value, without a failed assertion; the
\* first call returns 2 and changes only bi, from None to Some(0); and after
\* every call a sieve on a page with lowi > 0 has its nested sieve on a strictly
\* lower page, all the way down to a sieve on page zero.
NextPrimeReturns ==
    [][/\ Len(emitted') = Len(emitted) + 1
       /\ ~sieve'.panicked
       /\ sieve.bi = <<>> =>
             /\ Last(emitted') = 2
             /\ sieve' = [sieve EXCEPT !.bi = <<0>>]
       /\ ChainDescends(sieve')]_vars

\* C23 happens: the nested sieve has itself moved past page zero and has a
\* nested sieve of its own
NextPrimeReturnsWitness ==
    /\ sieve.lowi > 0 /\ sieve.bps # <<>>
    /\ sieve.bps[1].lowi > 0 /\ sieve.bps[1].bps # <<>>
    /\ sieve.bps[1].bps[1].lowi = 0
    /\ emitted[1] = 2

\* the u64 v is prime, for the values is_prime is called with
IsPrimeU64(v) ==
    IF v \in LargePrimes THEN TRUE
    ELSE IF v \in LargeComposites THEN FALSE
    ELSE IsPrimeNumber(v[1])

\* C24: is_prime(value) returns true exactly if value is prime, for every u64
\* value, those of 2^32 and above among them.
IsPrimeRight ==
    fcall.op = "is_prime" => ~fcall.aborted /\ (fcall.ret <=> IsPrimeU64(fcall.arg))

\* what holds instead: the answer is right for every value below 2^32
IsPrimeRightBelow2To32 ==
    (fcall.op = "is_prime" /\ fcall.arg[3] = 0 /\ fcall.arg[4] = 0) =>
        ~fcall.aborted /\ (fcall.ret <=> IsPrimeU64(fcall.arg))

\* the sums left + right + carry that add_digit forms while a + b is added, from
\* digit k from the end on, are all below 20
RECURSIVE DigitSumsBelow20(_, _, _, _)
DigitSumsBelow20(a, b, k, carry) ==
    IF k >= Max(Len(a), Len(b)) THEN TRUE
    ELSE /\ from_end(a, k) + from_end(b, k) + carry < 20
         /\ DigitSumsBelow20(a, b, k + 1, add_digit(from_end(a, k), from_end(b, k), carry).carry)

\* C25: the assertions of BigDigits addition hold for all operands: every
\* intermediate sum of add_digit is below 20, and result.checked_value() equals
\* the checked_add of the operands' checked values, which is None exactly if an
\* operand or the sum exceeds 64 bits, whatever the lengths and leading zeros.
AddAssertionsHold ==
    fcall.op = "add" =>
        /\ ~fcall.aborted
        /\ DigitSumsBelow20(fcall.arg[1], fcall.arg[2], 0, 0)
        /\ big_checked_value(fcall.ret) =
              and_then_add(big_checked_value(fcall.arg[1]), big_checked_value(fcall.arg[2]))
        /\ big_checked_value(fcall.ret).some <=>
              (FitsU64(fcall.arg[1]) /\ FitsU64(fcall.arg[2]) /\ FitsU64(fcall.ret))
        /\ CheckedValueOf(fcall.ret, big_checked_value(fcall.ret))

\* C25 happens: 2^64 - 1 and 1 have been added in a build with debug
\* assertions, and the sum is the 20 digits of 2^64
AddAssertionsHoldWitness ==
    /\ debug_assertions
    /\ fcall.op = "add" /\ fcall.arg = <<U64MaxDigits, <<1>>>>
    /\ fcall.ret = U64MaxDigitsPlus1 /\ ~fcall.aborted

\* the primes up to the greatest limit of the cache, by trial division
PrimesToMaxLimit == {p \in 2..MaxLimit : IsPrimeNumber(p)}

DerivedEq(a, b) == a.len = b.len /\ \A i \in 1..CAPACITY : a.values[i] = b.values[i]

\* what impl Hash writes: len, then as_slice()
Hashed(self) == <<self.len>> \o as_slice(self)

\* the Digits of the same digit sequence as self that from_digits builds
Canonical(self) == from_digits(as_slice(self)).self

\* C27: in every Digits reached through its public operations the slots at
\* positions >= len hold 0; hence the derived equality and the hash agree with
\* the equality of the digit sequences: a Digits is equal, by both, to the
\* Digits that from_digits builds from its digits.
SlotsPastLenAreZero ==
    /\ \A i \in (digits.len + 1)..CAPACITY : digits.values[i] = 0
    /\ DerivedEq(digits, Canonical(digits))
    /\ Hashed(digits) = Hashed(Canonical(digits))
    /\ \A i \in (last.pre.len + 1)..CAPACITY : last.pre.values[i] = 0
    /\ DerivedEq(digits, last.pre) <=> as_slice(digits) = as_slice(last.pre)

\* C27 happens: pad has lengthened a Digits that is not empty, and a digit that
\* is not 0 is left in it
SlotsPastLenAreZeroWitness ==
    /\ last.op = "pad" /\ ~last.aborted
    /\ last.pre.len > 0 /\ digits.len > last.pre.len /\ digits.len < CAPACITY
    /\ \E i \in 1..digits.len : digits.values[i] # 0

\* the values of the cards in the order of poker, lowest first
CardRankOrder ==
    <<"One", "Two", "Three", "Four", "Five", "Six", "Seven", "Eight", "Nine",
      "Ten", "Jack", "Queen", "King", "Ace">>

\* the place of the value v in that order, from 1
CardRank(v) == CHOOSE i \in 1..Len(CardRankOrder) : CardRankOrder[i] = v

\* the number of cards of the value v among the cards
ValueCount(cards, v) == Cardinality({i \in 1..Len(cards) : cards[i].value = v})

\* the values that n of the cards have
ValuesHeld(cards, n) == {v \in Values : ValueCount(cards, v) = n}

\* the cards are five cards of five consecutive values, the lowest of them v
Consecutive(cards, v) ==
    {CardRank(cards[i].value) : i \in 1..Len(cards)} = CardRank(v)..(CardRank(v) + 4)

\* the cards are all of one suit
OneSuit(cards) == \A i \in 1..Len(cards) : cards[i].suit = cards[1].suit

\* the highest place in the order of poker of a card of the cards
Highest(cards) ==
    CHOOSE r \in 1..Len(CardRankOrder) :
        /\ \E i \in 1..Len(cards) : CardRank(cards[i].value) = r
        /\ \A i \in 1..Len(cards) : CardRank(cards[i].value) <= r

\* C28: rank returns Straight(v) only for a hand of five consecutive values
\* the lowest of which is v, and a hand of more than one suit that holds one
\* pair, two pairs or three of a kind and no more is ranked OnePair, TwoPairs
\* or ThreeOfAKind, of the values of the pairs or of the three.
StraightRight ==
    fcall.op = "rank" /\ ~fcall.aborted =>
        /\ fcall.ret.kind = "Straight" => Consecutive(fcall.arg, fcall.ret.fields[1])
        /\ ~OneSuit(fcall.arg) /\ ValuesHeld(fcall.arg, 3) = {}
              /\ Cardinality(ValuesHeld(fcall.arg, 2)) = 1 =>
                 fcall.ret.kind = "OnePair" /\ fcall.ret.fields[1] \in ValuesHeld(fcall.arg, 2)
        /\ ~OneSuit(fcall.arg) /\ Cardinality(ValuesHeld(fcall.arg, 2)) = 2 =>
                 /\ fcall.ret.kind = "TwoPairs"
                 /\ {fcall.ret.fields[1], fcall.ret.fields[2]} = ValuesHeld(fcall.arg, 2)
        /\ ~OneSuit(fcall.arg) /\ ValuesHeld(fcall.arg, 2) = {}
              /\ Cardinality(ValuesHeld(fcall.arg, 3)) = 1 =>
                 fcall.ret.kind = "ThreeOfAKind"
                 /\ fcall.ret.fields[1] \in ValuesHeld(fcall.arg, 3)

\* What does hold of C28: it holds of the hands whose lowest value is below
\* Eight and whose values do not all lie within four of the lowest.
StraightRightOutsideOneWindow ==
    fcall.op = "rank"
    /\ (\A i \in 1..Len(fcall.arg) : value_id(fcall.arg[i].value) < 7)
    /\ (\E i, j \in 1..Len(fcall.arg) :
            value_id(fcall.arg[j].value) - value_id(fcall.arg[i].value) > 4)
       => StraightRight

\* C29: rank returns Flush for every hand of one suit whose values are not
\* five consecutive values, and the cards of PokerSuit::cards of that suit
\* are all the cards of the suit.
FlushRight ==
    fcall.op = "rank" /\ ~fcall.aborted /\ OneSuit(fcall.arg)
    /\ ~(\E v \in Values : Consecutive(fcall.arg, v)) =>
        /\ fcall.ret.kind = "Flush"
        /\ \A v \in Values :
              card_id([suit |-> fcall.arg[1].suit, value |-> v])
                  \in suit_cards(fcall.arg[1].suit)

\* What does hold of C29: rank returns Flush for those hands that hold no Ace.
FlushRightWithoutAce ==
    fcall.op = "rank" /\ ~fcall.aborted /\ OneSuit(fcall.arg)
    /\ ~(\E v \in Values : Consecutive(fcall.arg, v))
    /\ ValueCount(fcall.arg, "Ace") = 0 =>
        fcall.ret.kind = "Flush"

\* C30: the order of PokerValue is the order of poker. The hand new built is
\* sorted in it, the id of each of its values is the place of the value in
\* it (the number from_id takes for the value), and of two hands of five
\* values of more than one suit and not consecutive, whose highest cards
\* differ, determine_winner finds the one with the higher card the greater.
ValueOrderRight ==
    fcall.op = "determine_winner" /\ ~fcall.aborted =>
        /\ \A h \in 1..2 : \A i \in 1..4 :
              CardRank(fcall.hand[h][i].value) <= CardRank(fcall.hand[h][i + 1].value)
        /\ \A h \in 1..2 : \A i \in 1..5 :
              /\ value_id(fcall.arg[h][i].value) = CardRank(fcall.arg[h][i].value) - 1
              /\ value_from_id(value_id(fcall.arg[h][i].value)) = <<fcall.arg[h][i].value>>
        /\ Highest(fcall.arg[1]) > Highest(fcall.arg[2]) => fcall.ret = "Greater"
        /\ Highest(fcall.arg[1]) < Highest(fcall.arg[2]) => fcall.ret = "Less"

\* What does hold of C30: it holds of two hands that hold neither a Queen nor
\* a King.
ValueOrderRightWithoutQueenAndKing ==
    fcall.op = "determine_winner"
    /\ ValueCount(fcall.arg[1] \o fcall.arg[2], "Queen") = 0
    /\ ValueCount(fcall.arg[1] \o fcall.arg[2], "King") = 0
       => ValueOrderRight

====
